---- MODULE Spec2Model ----
(***************************************************************************)
(* Model of the authenticate -> authorize -> execute -> audit pipeline of  *)
(* mcp-ops-infrastructure: Authenticator (src/src/auth/authenticator.py),  *)
(* AuditLogger (src/src/audit/logger.py) and the call_tool dispatcher      *)
(* (src/src/server.py).                                                    *)
(*                                                                         *)
(* Python values are tagged tuples: <<"none">>, <<"str", s>>, <<"int", n>>,*)
(* <<"bool", b>>, <<"dict", m>> (m a function from key strings to values)  *)
(* and <<"list", q>> (q a sequence of values).  A text whose only relevant *)
(* property is its length is <<"text", c, n>>: the character c repeated n  *)
(* times.                                                                  *)
(***************************************************************************)
EXTENDS Integers, Sequences, FiniteSets, TLC

VARIABLES
    \* Settings (src/src/config.py), fixed for the life of the process
    auth_enabled, audit_enabled,
    api_keys,       \* get_api_key_roles(): credential -> role name
    \* Authenticator
    _api_key_cache, \* fingerprint -> <<masked credential, role>>
    \* AuditLogger
    _engine,        \* NoneV, or <<"engine", n>>: the n-th engine created
    _async_session, \* NoneV, or the session factory bound to an engine
    _initialized,
    \* the audit_logs table: its rows, in insertion order
    store,
    \* environment
    clock,          \* datetime.utcnow() / time.perf_counter(), in ticks
    uuid_next,      \* number of uuid4() values drawn so far
    engine_count,   \* number of engines created so far
    \* call_tool
    calls,          \* task -> the invocation it runs, and how far it got
    \* harness of the Authenticator and AuditLogger interfaces
    ret,            \* the last call and what it returned
    held,           \* <<the AuthContext of the last successful authenticate>>
    logged,         \* the pairs <<id, a>>: log(a) returned id
    \* harness of _sanitize_input
    sIn,            \* the mapping handed to _sanitize_input
    sOut1,          \* _sanitize_input(sIn)
    sOut2,          \* _sanitize_input(sOut1)
    sStep           \* how many of the two applications have run

settingsVars == <<auth_enabled, audit_enabled, api_keys>>
authVars == <<_api_key_cache, held>>
sinkVars == <<_engine, _async_session, _initialized, store>>
envVars == <<clock, uuid_next, engine_count>>
sinkHarnessVars == <<ret, logged>>
sanitizeVars == <<sIn, sOut1, sOut2, sStep>>

vars == <<settingsVars, authVars, sinkVars, envVars, calls, sinkHarnessVars,
          sanitizeVars>>

---------------------------------------------------------------------------
(* Python values *)

NoneV == <<"none">>
StrV(s) == <<"str", s>>
IntV(n) == <<"int", n>>
BoolV(b) == <<"bool", b>>
DictV(m) == <<"dict", m>>
ListV(q) == <<"list", q>>

IsNone(v) == v[1] = "none"
IsDict(v) == v[1] = "dict"
EmptyMap == [k \in {} |-> NoneV]

Min(a, b) == IF a <= b THEN a ELSE b

---------------------------------------------------------------------------
(* str.lower() and the `in` test on strings *)

LowerChar(c) ==
    CASE c = "A" -> "a" [] c = "B" -> "b" [] c = "C" -> "c" [] c = "D" -> "d"
      [] c = "E" -> "e" [] c = "F" -> "f" [] c = "G" -> "g" [] c = "H" -> "h"
      [] c = "I" -> "i" [] c = "J" -> "j" [] c = "K" -> "k" [] c = "L" -> "l"
      [] c = "M" -> "m" [] c = "N" -> "n" [] c = "O" -> "o" [] c = "P" -> "p"
      [] c = "Q" -> "q" [] c = "R" -> "r" [] c = "S" -> "s" [] c = "T" -> "t"
      [] c = "U" -> "u" [] c = "V" -> "v" [] c = "W" -> "w" [] c = "X" -> "x"
      [] c = "Y" -> "y" [] c = "Z" -> "z" [] OTHER -> c

RECURSIVE Lower(_)
Lower(s) ==
    IF Len(s) = 0 THEN ""
    ELSE LowerChar(SubSeq(s, 1, 1)) \o Lower(SubSeq(s, 2, Len(s)))

\* Python's `sub in s` for strings
Contains(s, sub) ==
    \E i \in 1..(Len(s) - Len(sub) + 1) : SubSeq(s, i, i + Len(sub) - 1) = sub

---------------------------------------------------------------------------
(* UserRole (src/src/schemas/models.py) *)

\* the enumeration's members, by name
UserRoleMembers == {"ADMIN", "ANALYST", "READONLY"}

\* member.value
RoleValue(role) ==
    CASE role = "ADMIN" -> "admin"
      [] role = "ANALYST" -> "analyst"
      [] role = "READONLY" -> "readonly"

\* UserRole(value): the member with that value, or "ValueError"
UserRole(value) ==
    IF \E r \in UserRoleMembers : RoleValue(r) = value
    THEN CHOOSE r \in UserRoleMembers : RoleValue(r) = value
    ELSE "ValueError"

---------------------------------------------------------------------------
(* Texts and Python truthiness *)

\* the character c repeated n times
TextV(c, n) == <<"text", c, n>>

\* text[:k] for k >= 0, of a TextV or a StrV
Prefix(text, k) ==
    IF text[1] = "text" THEN TextV(text[2], Min(text[3], k))
    ELSE StrV(SubSeq(text[2], 1, Min(Len(text[2]), k)))

\* m.get(key) and m.get(key, default) of a mapping m
Get(m, key) == IF key \in DOMAIN m THEN m[key] ELSE NoneV
GetOr(m, key, default) == IF key \in DOMAIN m THEN m[key] ELSE default

\* m without key (the mapping left by m.pop(key, None))
Without(m, key) == [k \in DOMAIN m \ {key} |-> m[k]]

\* bool(v), for the values that reach an `if v:`
Truthy(v) ==
    CASE v[1] = "none" -> FALSE
      [] v[1] = "str" -> v[2] # ""
      [] v[1] = "int" -> v[2] # 0
      [] v[1] = "bool" -> v[2]
      [] v[1] = "dict" -> DOMAIN v[2] # {}
      [] v[1] = "list" -> Len(v[2]) # 0
      [] OTHER -> TRUE

\* json.dumps / json.loads of a mapping with string keys
json_dumps(m) == <<"json", m>>
json_loads(t) == t[2]

---------------------------------------------------------------------------
(* Authenticator (src/src/auth/authenticator.py) *)

ROLE_PERMISSIONS ==
    [role \in UserRoleMembers |->
        CASE role = "ADMIN" ->
                {"sql_query", "search", "weather", "geocoding",
                 "view_audit", "manage_users"}
          [] role = "ANALYST" ->
                {"sql_query", "search", "weather", "geocoding", "view_audit"}
          [] role = "READONLY" ->
                {"sql_query", "weather", "geocoding"}]

\* hashlib.sha256(api_key.encode()).hexdigest(): taken to be injective
_hash_key(api_key) == <<"sha256", api_key>>

\* key_hash[:16]
HashPrefix(key_hash) == <<"sha256[:16]", key_hash[2]>>

\* key[:8] + "..."
Masked(key) == SubSeq(key, 1, Min(Len(key), 8)) \o "..."

\* A variant that loads a pair of unknown role name with the least role.
LoadDefaultingToReadonly(key_roles) ==
    [h \in {_hash_key(k) : k \in DOMAIN key_roles} |->
        <<Masked(h[2]),
          IF UserRole(Lower(key_roles[h[2]])) = "ValueError" THEN "READONLY"
          ELSE UserRole(Lower(key_roles[h[2]]))>>]

\* the cache _load_api_keys builds from key_roles (credential -> role name);
\* a pair whose role name is no UserRole value is skipped
_load_api_keys(key_roles) ==
    LET valid == {k \in DOMAIN key_roles :
                    UserRole(Lower(key_roles[k])) # "ValueError"}
    IN [h \in {_hash_key(k) : k \in valid} |->
            <<Masked(h[2]), UserRole(Lower(key_roles[h[2]]))>>]

AuthenticationError(message) ==
    [ok |-> FALSE, error |-> "AuthenticationError", message |-> message]

AuthorizationError(message) ==
    [ok |-> FALSE, error |-> "AuthorizationError", message |-> message]

\* A variant that looks the credential up by its masked form.
AuthenticateByPrefix(api_key) ==
    IF ~auth_enabled
    THEN [ok |-> TRUE,
          ctx |-> [user_id |-> "anonymous", role |-> "ADMIN",
                   api_key_hash |-> "disabled", authenticated_at |-> clock]]
    ELSE IF ~Truthy(api_key) THEN AuthenticationError("API key required")
    ELSE IF \A h \in DOMAIN _api_key_cache :
                _api_key_cache[h][1] # Masked(api_key[2])
         THEN AuthenticationError("Invalid API key")
    ELSE LET h == CHOOSE h \in DOMAIN _api_key_cache :
                      _api_key_cache[h][1] = Masked(api_key[2])
         IN [ok |-> TRUE,
             ctx |-> [user_id |-> _api_key_cache[h][1],
                      role |-> _api_key_cache[h][2],
                      api_key_hash |-> HashPrefix(h),
                      authenticated_at |-> clock]]

\* Authenticator.authenticate: the AuthContext, or the error raised
authenticate(api_key) ==
    IF ~auth_enabled
    THEN [ok |-> TRUE,
          ctx |-> [user_id |-> "anonymous", role |-> "ADMIN",
                   api_key_hash |-> "disabled", authenticated_at |-> clock]]
    ELSE IF ~Truthy(api_key) THEN AuthenticationError("API key required")
    ELSE IF _hash_key(api_key[2]) \notin DOMAIN _api_key_cache
         THEN AuthenticationError("Invalid API key")
    ELSE [ok |-> TRUE,
          ctx |-> [user_id |-> _api_key_cache[_hash_key(api_key[2])][1],
                   role |-> _api_key_cache[_hash_key(api_key[2])][2],
                   api_key_hash |-> HashPrefix(_hash_key(api_key[2])),
                   authenticated_at |-> clock]]

\* A variant that checks the tool against the union of all roles' sets.
AuthorizeAnyRole(auth_context, tool_name) ==
    IF tool_name \notin UNION {ROLE_PERMISSIONS[r] : r \in UserRoleMembers}
    THEN AuthorizationError("Role '" \o RoleValue(auth_context.role)
                            \o "' cannot access tool '" \o tool_name \o "'")
    ELSE [ok |-> TRUE]

\* Authenticator.authorize: True, or the error raised
authorize(auth_context, tool_name) ==
    IF tool_name \notin ROLE_PERMISSIONS[auth_context.role]
    THEN AuthorizationError("Role '" \o RoleValue(auth_context.role)
                            \o "' cannot access tool '" \o tool_name \o "'")
    ELSE [ok |-> TRUE]

---------------------------------------------------------------------------
(* AuditLogger._sanitize_input *)

sensitive_keys == {"password", "api_key", "token", "secret", "credential"}

REDACTED == StrV("[REDACTED]")

IsSensitiveKey(key) == \E s \in sensitive_keys : Contains(Lower(key), s)

\* A variant that stores a digest of the secret value instead of the marker.
RECURSIVE SanitizeDigesting(_)
SanitizeDigesting(input_data) ==
    [key \in DOMAIN input_data |->
        IF IsSensitiveKey(key) THEN <<"digest", input_data[key]>>
        ELSE IF IsDict(input_data[key])
             THEN DictV(SanitizeDigesting(input_data[key][2]))
             ELSE input_data[key]]

\* A variant that compares the key without lower-casing it.
RECURSIVE SanitizeCaseSensitive(_)
SanitizeCaseSensitive(input_data) ==
    [key \in DOMAIN input_data |->
        IF \E s \in sensitive_keys : Contains(key, s) THEN REDACTED
        ELSE IF IsDict(input_data[key])
             THEN DictV(SanitizeCaseSensitive(input_data[key][2]))
             ELSE input_data[key]]

RECURSIVE _sanitize_input(_)
_sanitize_input(input_data) ==
    [key \in DOMAIN input_data |->
        IF IsSensitiveKey(key) THEN REDACTED
        ELSE IF IsDict(input_data[key])
             THEN DictV(_sanitize_input(input_data[key][2]))
             ELSE input_data[key]]

---------------------------------------------------------------------------
(* Inputs of the _sanitize_input harness *)

MaxKeys == 2

OuterKeys == {"password", "API_Key", "nested", "z", "MyTokens"}
InnerKeys == {"api_key", "z"}

\* every mapping with at most MaxKeys keys drawn from keys, values from vals
MapsOver(keys, vals) ==
    UNION {[ks -> vals] : ks \in {k \in SUBSET keys : Cardinality(k) <= MaxKeys}}

InnerLeaves == {StrV("y"), IntV(1), REDACTED}
InnerMaps == MapsOver(InnerKeys, InnerLeaves)

OuterLeaves ==
    {StrV("x"), REDACTED, IntV(1),
     ListV(<<DictV([password |-> StrV("p")]), StrV("x")>>)}
OuterMaps == MapsOver(OuterKeys, OuterLeaves \cup {DictV(m) : m \in InnerMaps})

\* mappings nested three deep, a secret at the bottom
DeepMaps ==
    {[outer |-> DictV([nested |-> DictV(m)])] : m \in InnerMaps}
    \cup {[outer |-> DictV([Secret |-> DictV(m)])] : m \in InnerMaps}

SanitizeInputs == OuterMaps \cup DeepMaps

\* the harness at rest, in the specifications that do not use it
SanitizeIdle == sIn = EmptyMap /\ sOut1 = EmptyMap /\ sOut2 = EmptyMap /\ sStep = 0

\* sanitize the input, then sanitize what came back
Sanitize ==
    /\ sStep < 2
    /\ IF sStep = 0
       THEN sOut1' = _sanitize_input(sIn) /\ UNCHANGED sOut2
       ELSE sOut2' = _sanitize_input(sOut1) /\ UNCHANGED sOut1
    /\ sStep' = sStep + 1
    /\ UNCHANGED <<sIn, settingsVars, authVars, calls, sinkVars, envVars, sinkHarnessVars>>

---------------------------------------------------------------------------
(* AuditLogger (src/src/audit/logger.py) *)

SummaryLimit == 1000

\* A variant that persists the input as it was given.
AuditLogUnsanitized(entry_id, a) ==
    [id |-> entry_id, timestamp |-> clock, user_id |-> a.user_id,
     user_role |-> RoleValue(a.user_role), tool_name |-> a.tool_name,
     input_data |-> json_dumps(a.input_data),
     output_summary |-> Prefix(a.output_summary, SummaryLimit),
     success |-> a.success, error_message |-> a.error_message,
     execution_time_ms |-> a.execution_time_ms, ip_address |-> a.ip_address]

\* A variant that cuts the summary one character short.
AuditLogLossy(entry_id, a) ==
    [id |-> entry_id, timestamp |-> clock, user_id |-> a.user_id,
     user_role |-> RoleValue(a.user_role), tool_name |-> a.tool_name,
     input_data |-> json_dumps(_sanitize_input(a.input_data)),
     output_summary |-> Prefix(a.output_summary, SummaryLimit - 1),
     success |-> a.success, error_message |-> a.error_message,
     execution_time_ms |-> a.execution_time_ms, ip_address |-> a.ip_address]

\* the row log() builds from its arguments a (a record of its parameters)
AuditLog(entry_id, a) ==
    [id |-> entry_id, timestamp |-> clock, user_id |-> a.user_id,
     user_role |-> RoleValue(a.user_role), tool_name |-> a.tool_name,
     input_data |-> json_dumps(_sanitize_input(a.input_data)),
     output_summary |-> Prefix(a.output_summary, SummaryLimit),
     success |-> a.success, error_message |-> a.error_message,
     execution_time_ms |-> a.execution_time_ms, ip_address |-> a.ip_address]

\* A variant that looks at the setting only, not at the sink.
LogNoOpWhenDisabled == ~audit_enabled

\* log() returns None before doing anything
LogNoOp == ~audit_enabled \/ ~_initialized

\* A variant that draws the same id every time.
Uuid4Repeating == <<"uuid", 1>>

\* str(uuid.uuid4()): a value never drawn before
Uuid4 == <<"uuid", uuid_next + 1>>

\* A variant that takes an engine left by a failed call as a mark that
\* the storage is down for good.
InitializeLatching(connects) ==
    IF _initialized \/ ~audit_enabled \/ _engine # NoneV
    THEN UNCHANGED <<_engine, _async_session, _initialized, engine_count>>
    ELSE /\ engine_count' = engine_count + 1
         /\ _engine' = <<"engine", engine_count + 1>>
         /\ IF connects
            THEN /\ _async_session' = <<"sessionmaker", engine_count + 1>>
                 /\ _initialized' = TRUE
            ELSE UNCHANGED <<_async_session, _initialized>>

\* A variant that opens the storage again on every call.
InitializeReopening(connects) ==
    IF ~audit_enabled
    THEN UNCHANGED <<_engine, _async_session, _initialized, engine_count>>
    ELSE /\ engine_count' = engine_count + 1
         /\ _engine' = <<"engine", engine_count + 1>>
         /\ IF connects
            THEN /\ _async_session' = <<"sessionmaker", engine_count + 1>>
                 /\ _initialized' = TRUE
            ELSE UNCHANGED <<_async_session, _initialized>>

\* AuditLogger.initialize; connects says whether the storage accepts the
\* connection that creates the tables
initialize(connects) ==
    IF _initialized \/ ~audit_enabled
    THEN UNCHANGED <<_engine, _async_session, _initialized, engine_count>>
    ELSE /\ engine_count' = engine_count + 1
         /\ _engine' = <<"engine", engine_count + 1>>
         /\ IF connects
            THEN /\ _async_session' = <<"sessionmaker", engine_count + 1>>
                 /\ _initialized' = TRUE
            ELSE UNCHANGED <<_async_session, _initialized>>

\* A variant that disposes the engine and leaves the flag as it is.
CloseKeepingFlag == UNCHANGED <<_engine, _async_session, _initialized>>

\* AuditLogger.close
close ==
    IF _engine # NoneV
    THEN _initialized' = FALSE /\ UNCHANGED <<_engine, _async_session>>
    ELSE UNCHANGED <<_engine, _async_session, _initialized>>

\* the AuditEntry query() builds from a row
AuditEntry(row) ==
    [id |-> row.id, timestamp |-> row.timestamp, user_id |-> row.user_id,
     user_role |-> UserRole(row.user_role), tool_name |-> row.tool_name,
     input_data |-> json_loads(row.input_data),
     output_summary |-> row.output_summary, success |-> row.success,
     error_message |-> row.error_message,
     execution_time_ms |-> row.execution_time_ms, ip_address |-> row.ip_address]

\* the WHERE clauses query() adds for its filters f
RowMatches(row, f) ==
    /\ Truthy(f.user_id) => row.user_id = f.user_id[2]
    /\ Truthy(f.tool_name) => row.tool_name = f.tool_name[2]
    /\ ~IsNone(f.start_time) => row.timestamp >= f.start_time[2]
    /\ ~IsNone(f.end_time) => row.timestamp <= f.end_time[2]
    /\ f.success_only => row.success

\* A variant that delivers the rows oldest first.
AscendingOrders(R) ==
    {q \in [1..Cardinality(R) -> R] :
        /\ \A i, j \in DOMAIN q : i # j => q[i] # q[j]
        /\ \A i, j \in DOMAIN q : i < j => q[i].timestamp <= q[j].timestamp}

\* the orders in which ORDER BY timestamp DESC may deliver the rows of set R:
\* rows of equal timestamp come in any order
RECURSIVE DescendingOrders(_)
DescendingOrders(R) ==
    IF R = {} THEN {<<>>}
    ELSE UNION {{<<r>> \o q : q \in DescendingOrders(R \ {r})} :
                    r \in {n \in R : \A o \in R : n.timestamp >= o.timestamp}}

\* SELECT ... ORDER BY timestamp DESC LIMIT n
Limited(q, n) == SubSeq(q, 1, Min(Len(q), n))

\* A variant that reads the storage whether the sink is initialized or not.
QueryResultsUnguarded(f, fails) ==
    IF fails \/ f.limit < 0 THEN {<<>>}
    ELSE {[i \in DOMAIN Limited(q, f.limit) |-> AuditEntry(q[i])] :
            q \in DescendingOrders(
                    {store[i] : i \in {j \in DOMAIN store : RowMatches(store[j], f)}})}

\* everything query(f) may return; fails says whether the storage fails the
\* read.  A negative LIMIT is an error of the storage.
QueryResults(f, fails) ==
    IF ~_initialized THEN {<<>>}
    ELSE IF fails \/ f.limit < 0 THEN {<<>>}
    ELSE {[i \in DOMAIN Limited(q, f.limit) |-> AuditEntry(q[i])] :
            q \in DescendingOrders(
                    {store[i] : i \in {j \in DOMAIN store : RowMatches(store[j], f)}})}

---------------------------------------------------------------------------
(* SQLQueryInput (src/src/schemas/models.py) and execute_sql_query         *)
(* (src/src/tools/sql_tool.py)                                              *)

UpperChar(c) ==
    CASE c = "a" -> "A" [] c = "b" -> "B" [] c = "c" -> "C" [] c = "d" -> "D"
      [] c = "e" -> "E" [] c = "f" -> "F" [] c = "g" -> "G" [] c = "h" -> "H"
      [] c = "i" -> "I" [] c = "j" -> "J" [] c = "k" -> "K" [] c = "l" -> "L"
      [] c = "m" -> "M" [] c = "n" -> "N" [] c = "o" -> "O" [] c = "p" -> "P"
      [] c = "q" -> "Q" [] c = "r" -> "R" [] c = "s" -> "S" [] c = "t" -> "T"
      [] c = "u" -> "U" [] c = "v" -> "V" [] c = "w" -> "W" [] c = "x" -> "X"
      [] c = "y" -> "Y" [] c = "z" -> "Z" [] OTHER -> c

\* str.upper()
RECURSIVE Upper(_)
Upper(s) ==
    IF Len(s) = 0 THEN ""
    ELSE IF Len(s) = 1 THEN UpperChar(s)
    ELSE Upper(SubSeq(s, 1, Len(s) \div 2))
         \o Upper(SubSeq(s, Len(s) \div 2 + 1, Len(s)))

\* str.strip(): the whitespace at both ends is dropped
Whitespace == {" ", "\t", "\n"}

RECURSIVE LStrip(_)
LStrip(s) ==
    IF Len(s) > 0 /\ SubSeq(s, 1, 1) \in Whitespace
    THEN LStrip(SubSeq(s, 2, Len(s))) ELSE s

RECURSIVE RStrip(_)
RStrip(s) ==
    IF Len(s) > 0 /\ SubSeq(s, Len(s), Len(s)) \in Whitespace
    THEN RStrip(SubSeq(s, 1, Len(s) - 1)) ELSE s

Strip(s) == RStrip(LStrip(s))

\* str.startswith
StartsWith(s, prefix) ==
    Len(s) >= Len(prefix) /\ SubSeq(s, 1, Len(prefix)) = prefix

\* the Field constraints of query and limit
QueryMinLength == 1
QueryMaxLength == 2000
LimitMin == 1
LimitMax == 1000

dangerous_keywords ==
    <<"DROP", "DELETE", "INSERT", "UPDATE", "ALTER", "CREATE", "TRUNCATE",
      "EXEC", "EXECUTE", "--", ";">>

\* A variant that looks for the keywords in the text as it was given.
ValidateKeywordsAsGiven(v) ==
    LET normalized == Upper(Strip(v))
        found == {i \in DOMAIN dangerous_keywords :
                     Contains(v, dangerous_keywords[i])}
    IN IF found # {}
       THEN [ok |-> FALSE,
             message |-> "Query contains forbidden keyword: "
                         \o dangerous_keywords[CHOOSE i \in found :
                                                  \A j \in found : i <= j]]
       ELSE IF ~StartsWith(normalized, "SELECT")
       THEN [ok |-> FALSE, message |-> "Only SELECT queries are permitted"]
       ELSE [ok |-> TRUE, message |-> ""]

\* the field validator of query: the ValueError it raises, or ok
validate_safe_query(v) ==
    LET normalized == Upper(Strip(v))
        found == {i \in DOMAIN dangerous_keywords :
                     Contains(normalized, dangerous_keywords[i])}
    IN IF found # {}
       THEN [ok |-> FALSE,
             message |-> "Query contains forbidden keyword: "
                         \o dangerous_keywords[CHOOSE i \in found :
                                                  \A j \in found : i <= j]]
       ELSE IF ~StartsWith(normalized, "SELECT")
       THEN [ok |-> FALSE, message |-> "Only SELECT queries are permitted"]
       ELSE [ok |-> TRUE, message |-> ""]

\* SQLQueryInput(query=query, parameters=None, limit=limit): the errors of
\* the two fields, each field's constraints checked before its validator
SQLQueryInput(query, limit) ==
    LET query_error ==
            IF Len(query[2]) < QueryMinLength
            THEN <<"String should have at least 1 character">>
            ELSE IF Len(query[2]) > QueryMaxLength
            THEN <<"String should have at most 2000 characters">>
            ELSE IF ~validate_safe_query(query[2]).ok
            THEN <<"Value error, " \o validate_safe_query(query[2]).message>>
            ELSE <<>>
        limit_error ==
            IF limit[1] # "int"
            THEN <<"Input should be a valid integer">>
            ELSE IF limit[2] < LimitMin
            THEN <<"Input should be greater than or equal to 1">>
            ELSE IF limit[2] > LimitMax
            THEN <<"Input should be less than or equal to 1000">>
            ELSE <<>>
    IN [ok |-> query_error \o limit_error = <<>>,
        errors |-> query_error \o limit_error,
        query |-> query, limit |-> limit]

\* ToolError(code, message, details).model_dump()
ToolError(code, message, details) ==
    DictV([error |-> BoolV(TRUE), code |-> StrV(code), message |-> message,
           details |-> DictV(details)])

\* what the operations database does with a query it is given: it returns
\* rows, or the execution raises
DbOutcomes ==
    {[kind |-> "rows", row_count |-> 0], [kind |-> "rows", row_count |-> 1],
     [kind |-> "raise", text |-> "no such table: t"]}

PreviewLength == 100

\* execute_sql_query(query, None, limit) against a database that answers db:
\* the dictionary returned, and the number of queries given to the database
execute_sql_query(query, limit, db) ==
    LET validated_input == SQLQueryInput(query, limit)
    IN IF ~validated_input.ok
       THEN [result |-> ToolError("VALIDATION_ERROR",
                                  ListV(validated_input.errors),
                                  [query |-> Prefix(query, PreviewLength)]),
             db_calls |-> 0]
       ELSE IF db.kind = "raise"
       THEN [result |-> ToolError("EXECUTION_ERROR",
                                  StrV("Query failed: " \o db.text),
                                  [query_preview |-> Prefix(query, PreviewLength)]),
             db_calls |-> 1]
       ELSE [result |-> DictV([success |-> BoolV(TRUE),
                               row_count |-> IntV(db.row_count)]),
             db_calls |-> 1]

---------------------------------------------------------------------------
(* call_tool (src/src/server.py) *)

tool_permission_map ==
    [name \in {"sql_query", "database_schema", "web_search", "weather",
               "geocode_location", "view_audit_log"} |->
        CASE name = "sql_query" -> "sql_query"
          [] name = "database_schema" -> "sql_query"
          [] name = "web_search" -> "search"
          [] name = "weather" -> "weather"
          [] name = "geocode_location" -> "geocoding"
          [] name = "view_audit_log" -> "view_audit"]

\* the tools call_tool awaits outside this process
ExternalTools ==
    {"sql_query", "database_schema", "web_search", "weather", "geocode_location"}

SummaryCut == 500

\* the payload {"error": true, "code": code, "message": message}
ErrorPayload(code, message) ==
    DictV([error |-> BoolV(TRUE), code |-> StrV(code), message |-> StrV(message)])

\* str(result) of an error payload built by call_tool, as a text of its length
ErrorRepr(message) == TextV("r", 60 + Len(message))

\* a task that runs no invocation.  tool_calls, log_calls, audit_ids,
\* executing, sink_ready, fault, log_result and thrown record what happened:
\* the tool collaborators invoked, the calls of audit_logger.log, the ids
\* those calls drew, whether the execute block was entered, whether the sink
\* was initialized when log was called, whether the storage failed the write,
\* what log returned, the text of the exception the tool raised;
\* tool_started is the time at which the execute block was entered,
\* tool_args the keyword arguments the tool was called with.
IdleCall ==
    [pc |-> "idle", name |-> "", arguments |-> EmptyMap, api_key |-> NoneV,
     start_time |-> 0, auth_context |-> NoneV, result |-> NoneV,
     success |-> TRUE, error_message |-> NoneV, execution_time |-> 0,
     row |-> NoneV, response |-> NoneV,
     tool_calls |-> 0, log_calls |-> 0, audit_ids |-> {}, executing |-> FALSE,
     sink_ready |-> FALSE, fault |-> FALSE, log_result |-> NoneV,
     thrown |-> NoneV, tool_started |-> 0, tool_args |-> EmptyMap]

\* A variant that reads the credential and leaves it in the arguments.
ReceivedKeeping(name, arguments, elapsed) ==
    [IdleCall EXCEPT !.pc = "received", !.name = name,
                     !.arguments = arguments,
                     !.api_key = Get(arguments, "_api_key"),
                     !.start_time = clock - elapsed]

\* the invocation call_tool(name, arguments) as it is when authentication
\* and authorization are over, at the current time: it read its start time
\* (line 207) before them, `elapsed` ago, and popped the credential from the
\* arguments (line 210)
Received(name, arguments, elapsed) ==
    [IdleCall EXCEPT !.pc = "received", !.name = name,
                     !.arguments = Without(arguments, "_api_key"),
                     !.api_key = Get(arguments, "_api_key"),
                     !.start_time = clock - elapsed]

\* A variant that lets a caller whose credential fails in as anonymous.
AuthenticatedOrAnonymous(c) ==
    IF auth_enabled /\ authenticate(c.api_key).ok THEN authenticate(c.api_key)
    ELSE [ok |-> TRUE, ctx |-> [user_id |-> "anonymous", role |-> "ADMIN"]]

\* A variant that gives every caller it lets in the identity "anonymous".
AuthenticatedUnnamed(c) ==
    IF auth_enabled /\ authenticate(c.api_key).ok
    THEN [ok |-> TRUE,
          ctx |-> [authenticate(c.api_key).ctx EXCEPT !.user_id = "anonymous"]]
    ELSE IF auth_enabled THEN authenticate(c.api_key)
    ELSE [ok |-> TRUE, ctx |-> [user_id |-> "anonymous", role |-> "ADMIN"]]

\* A variant that never asks the Authenticator.
AuthorizedSkipped(c, auth_context) == [ok |-> TRUE]

\* A variant that asks the Authenticator for every tool name, mapped or not.
AuthorizedStrict(c, auth_context) ==
    IF c.name \in DOMAIN tool_permission_map
    THEN authorize(auth_context, tool_permission_map[c.name])
    ELSE authorize(auth_context, c.name)

\* A variant that asks for the capability of sql_query whatever the tool.
AuthorizedAsQuery(c, auth_context) ==
    IF c.name \in DOMAIN tool_permission_map
    THEN authorize(auth_context, "sql_query")
    ELSE [ok |-> TRUE]

\* the AuthContext of lines 213-220, or the error authenticate raised
Authenticated(c) ==
    IF auth_enabled THEN authenticate(c.api_key)
    ELSE [ok |-> TRUE, ctx |-> [user_id |-> "anonymous", role |-> "ADMIN"]]

\* lines 238-246: the error authorize raised, or [ok |-> TRUE]
Authorized(c, auth_context) ==
    IF c.name \in DOMAIN tool_permission_map
    THEN authorize(auth_context, tool_permission_map[c.name])
    ELSE [ok |-> TRUE]

\* the response of lines 222-225 and 243-246
AuthErrorResponse(message) == ErrorPayload("AUTH_ERROR", message)

\* A variant that keeps what the execute block set.
NormalizedByBranch(result, success, error_message) ==
    [success |-> success, error_message |-> error_message]

\* A variant that marks a flagged result as failed and leaves the message
\* as the execute block set it.
NormalizedKeepingMessage(result, success, error_message) ==
    IF IsDict(result.value) /\ Truthy(Get(result.value[2], "error"))
    THEN [success |-> FALSE, error_message |-> error_message]
    ELSE [success |-> success, error_message |-> error_message]

\* lines 297-302: the outcome of a result, given what the execute block set
Normalized(result, success, error_message) ==
    IF IsDict(result.value) /\ Truthy(Get(result.value[2], "error"))
    THEN [success |-> FALSE,
          error_message |-> GetOr(result.value[2], "message", StrV("Unknown error"))]
    ELSE [success |-> success, error_message |-> error_message]

\* A variant that passes no error message to the audit.
LogCallArgsNoMessage(c, result, outcome) ==
    [user_id |-> c.auth_context.user_id, user_role |-> c.auth_context.role,
     tool_name |-> c.name, input_data |-> c.arguments,
     output_summary |-> IF Truthy(result.value)
                        THEN Prefix(result.repr, SummaryCut)
                        ELSE StrV("No result"),
     success |-> outcome.success,
     execution_time_ms |-> clock - c.start_time,
     error_message |-> NoneV, ip_address |-> NoneV]

\* A variant that times the execute block alone.
LogCallArgsTimingTool(c, result, outcome) ==
    [user_id |-> c.auth_context.user_id, user_role |-> c.auth_context.role,
     tool_name |-> c.name, input_data |-> c.arguments,
     output_summary |-> IF Truthy(result.value)
                        THEN Prefix(result.repr, SummaryCut)
                        ELSE StrV("No result"),
     success |-> outcome.success,
     execution_time_ms |-> clock - c.tool_started,
     error_message |-> outcome.error_message, ip_address |-> NoneV]

\* the arguments call_tool passes to audit_logger.log (lines 306-315)
LogCallArgs(c, result, outcome) ==
    [user_id |-> c.auth_context.user_id, user_role |-> c.auth_context.role,
     tool_name |-> c.name, input_data |-> c.arguments,
     output_summary |-> IF Truthy(result.value)
                        THEN Prefix(result.repr, SummaryCut)
                        ELSE StrV("No result"),
     success |-> outcome.success,
     execution_time_ms |-> clock - c.start_time,
     error_message |-> outcome.error_message, ip_address |-> NoneV]

\* A variant of the tail that audits only the executions that succeeded.
FinishAuditingSuccesses(t, c, result, success, error_message) ==
    LET outcome == Normalized(result, success, error_message)
        d == [c EXCEPT !.pc = "done", !.result = result.value,
                       !.success = outcome.success,
                       !.error_message = outcome.error_message,
                       !.execution_time = clock - c.start_time,
                       !.response = result.value,
                       !.sink_ready = _initialized]
    IN IF audit_enabled /\ outcome.success
       THEN IF LogNoOp
            THEN /\ calls' = [calls EXCEPT ![t] =
                                [d EXCEPT !.log_calls = c.log_calls + 1]]
                 /\ UNCHANGED uuid_next
            ELSE /\ calls' = [calls EXCEPT ![t] =
                                [d EXCEPT !.pc = "commit",
                                          !.log_calls = c.log_calls + 1,
                                          !.audit_ids = c.audit_ids \cup {Uuid4},
                                          !.row = AuditLog(Uuid4,
                                                    LogCallArgs(c, result, outcome))]]
                 /\ uuid_next' = uuid_next + 1
       ELSE calls' = [calls EXCEPT ![t] = d] /\ UNCHANGED uuid_next

\* lines 297-322 up to the commit of the audit row: the elapsed time, the
\* outcome, and the call of audit_logger.log, which returns at once when it
\* is a no-op and otherwise builds the row and waits for the commit
Finish(t, c, result, success, error_message) ==
    LET outcome == Normalized(result, success, error_message)
        d == [c EXCEPT !.pc = "done", !.result = result.value,
                       !.success = outcome.success,
                       !.error_message = outcome.error_message,
                       !.execution_time = clock - c.start_time,
                       !.response = result.value,
                       !.sink_ready = _initialized]
    IN IF audit_enabled
       THEN IF LogNoOp
            THEN /\ calls' = [calls EXCEPT ![t] =
                                [d EXCEPT !.log_calls = c.log_calls + 1]]
                 /\ UNCHANGED uuid_next
            ELSE /\ calls' = [calls EXCEPT ![t] =
                                [d EXCEPT !.pc = "commit",
                                          !.log_calls = c.log_calls + 1,
                                          !.audit_ids = c.audit_ids \cup {Uuid4},
                                          !.row = AuditLog(Uuid4,
                                                    LogCallArgs(c, result, outcome))]]
                 /\ uuid_next' = uuid_next + 1
       ELSE calls' = [calls EXCEPT ![t] = d] /\ UNCHANGED uuid_next

---------------------------------------------------------------------------
(* The AuditLogger interface called directly: initialize, log, query, close *)

MaxTime == 1
MaxEngines == 2
MaxLogs == 2

LongText == TextV("o", SummaryLimit + 1)

\* the argument records the harness passes to log()
LogArgs ==
    {[user_id |-> "sk-admin...", user_role |-> "ADMIN", tool_name |-> "sql_query",
      input_data |-> [query |-> StrV("SELECT 1"),
                      opts |-> DictV([Auth_Token |-> StrV("t"), n |-> IntV(1)])],
      output_summary |-> LongText, success |-> TRUE,
      execution_time_ms |-> 3, error_message |-> NoneV,
      ip_address |-> StrV("10.0.0.1")],
     [user_id |-> "sk-reado...", user_role |-> "READONLY", tool_name |-> "sql_query",
      input_data |-> [db_password |-> StrV("pw"),
                      items |-> ListV(<<DictV([password |-> StrV("p")])>>)],
      output_summary |-> TextV("o", SummaryLimit), success |-> FALSE,
      execution_time_ms |-> 7, error_message |-> StrV("Query failed"),
      ip_address |-> NoneV],
     [user_id |-> "anonymous", user_role |-> "ANALYST", tool_name |-> "",
      input_data |-> EmptyMap,
      output_summary |-> TextV("o", 0), success |-> FALSE,
      execution_time_ms |-> 0, error_message |-> StrV(""), ip_address |-> NoneV]}

Filter(user_id, tool_name, start_time, end_time, success_only, limit) ==
    [user_id |-> user_id, tool_name |-> tool_name, start_time |-> start_time,
     end_time |-> end_time, success_only |-> success_only, limit |-> limit]

\* the filters the harness passes to query(): every combination of identity,
\* tool name, time window and success_only under the default limit, and the
\* limits -1, 0 and 1 under the identity and tool-name filters
QueryFilters ==
    {Filter(u, t, w[1], w[2], so, 100) :
        u \in {NoneV, StrV(""), StrV("sk-admin...")},
        t \in {NoneV, StrV("sql_query")},
        w \in {<<NoneV, NoneV>>, <<IntV(1), NoneV>>, <<NoneV, IntV(0)>>},
        so \in BOOLEAN}
    \cup {Filter(u, t, NoneV, NoneV, FALSE, n) :
        u \in {NoneV, StrV("sk-reado...")},
        t \in {NoneV, StrV("")},
        n \in {-1, 0, 1}}

SinkHarnessIdle == ret = [op |-> "none"] /\ logged = {}

\* initialize(): it opens an engine only when auditing is enabled and the
\* sink is not initialized, and the engines opened are counted up to MaxEngines
Initialize ==
    /\ engine_count < MaxEngines \/ _initialized \/ ~audit_enabled
    /\ \E connects \in BOOLEAN :
        /\ initialize(connects)
        /\ ret' = [op |-> "initialize", connects |-> connects]
    /\ UNCHANGED <<settingsVars, authVars, calls, store, clock, uuid_next, logged,
                   sanitizeVars>>

\* log(a): fails says whether the storage fails the write
Log ==
    /\ uuid_next < MaxLogs
    /\ \E a \in LogArgs, fails \in BOOLEAN :
        IF LogNoOp
        THEN /\ ret' = [op |-> "log", args |-> a, result |-> NoneV]
             /\ UNCHANGED <<store, uuid_next, logged>>
        ELSE /\ uuid_next' = uuid_next + 1
             /\ IF fails
                THEN /\ ret' = [op |-> "log", args |-> a, result |-> NoneV]
                     /\ UNCHANGED <<store, logged>>
                ELSE /\ store' = Append(store, AuditLog(Uuid4, a))
                     /\ ret' = [op |-> "log", args |-> a, result |-> Uuid4]
                     /\ logged' = logged \cup {<<Uuid4, a>>}
    /\ UNCHANGED <<settingsVars, authVars, calls, _engine, _async_session,
                   _initialized, clock, engine_count, sanitizeVars>>

\* query(f).  A query changes nothing, so a second query in a row reaches
\* nothing that the first did not: the harness issues them one at a time.
Query ==
    /\ ret.op # "query"
    /\ \E f \in QueryFilters, fails \in BOOLEAN :
        \E result \in QueryResults(f, fails) :
            ret' = [op |-> "query", filters |-> f, fails |-> fails,
                    result |-> result]
    /\ UNCHANGED <<settingsVars, authVars, calls, sinkVars, envVars, logged,
                   sanitizeVars>>

Close ==
    /\ close
    /\ ret' = [op |-> "close"]
    /\ UNCHANGED <<settingsVars, authVars, calls, store, envVars, logged,
                   sanitizeVars>>

Tick ==
    /\ clock < MaxTime
    /\ clock' = clock + 1
    /\ UNCHANGED <<settingsVars, authVars, calls, sinkVars, uuid_next,
                   engine_count, sinkHarnessVars, sanitizeVars>>

---------------------------------------------------------------------------
(* One invocation through call_tool *)

KeyRoles ==
    ("sk-admin-key-01" :> "admin") @@ ("sk-analyst-key2" :> "Analyst")
    @@ ("sk-readonly-key" :> "readonly") @@ ("ro" :> "READONLY")
    @@ ("sk-root-key-000" :> "superuser") @@ ("anonymous" :> "admin")

\* what a caller may put under "_api_key": nothing, the empty string, a
\* loaded credential, one that shares its first characters with a loaded
\* one, one whose pair was dropped at load, a loaded one that reads as the
\* identity of the auth-disabled mode
Credentials ==
    {NoneV, StrV(""), StrV("sk-admin-key-01"), StrV("sk-analyst-key2"),
     StrV("sk-readonly-key"), StrV("sk-admin-key-99"), StrV("sk-root-key-000"),
     StrV("anonymous")}

ToolNames == DOMAIN tool_permission_map \cup {"no_such_tool"}

BaseArguments ==
    {[query |-> StrV("SELECT 1"), limit |-> IntV(1)],
     [query |-> StrV("SELECT 1"), limit |-> IntV(1000)],
     [query |-> StrV("x"), tool_name |-> StrV("sql_query"),
      password |-> StrV("pw"),
      opts |-> DictV([Auth_Token |-> StrV("t"), n |-> IntV(1)]),
      items |-> ListV(<<DictV([password |-> StrV("p")])>>)]}

\* the argument mappings of the requests
Arguments ==
    {IF IsNone(k) THEN b ELSE ("_api_key" :> k) @@ b :
        b \in BaseArguments, k \in Credentials}

\* what a tool collaborator may do: return a success payload, return a
\* ToolError payload (every payload the tools flag is one, and has its
\* message), return a payload whose error flag is false, or raise, with a
\* text or without
ToolOutcomes ==
    {[kind |-> "return",
      value |-> DictV([success |-> BoolV(TRUE), row_count |-> IntV(1)]),
      repr |-> TextV("r", SummaryCut + 1)],
     [kind |-> "return",
      value |-> ErrorPayload("VALIDATION_ERROR", "Only SELECT queries are permitted"),
      repr |-> TextV("r", 110)],
     [kind |-> "return",
      value |-> DictV([error |-> BoolV(FALSE), results |-> ListV(<<>>)]),
      repr |-> TextV("r", 32)],
     [kind |-> "return",
      value |-> ErrorPayload("SCHEMA_ERROR", "Failed to get schema: db down"),
      repr |-> TextV("r", 106)],
     [kind |-> "raise", text |-> "boom"],
     [kind |-> "raise", text |-> ""]}

\* the limit of view_audit_log when the arguments give none (line 280)
ViewLimitDefault == 20

\* the keyword arguments call_tool gives the tool of this name (lines
\* 254-281): the entries it picks from the arguments, or their defaults
ToolArgs(name, arguments) ==
    CASE name = "sql_query" ->
            [query |-> GetOr(arguments, "query", StrV("")),
             limit |-> GetOr(arguments, "limit", IntV(100))]
      [] name = "web_search" ->
            [query |-> GetOr(arguments, "query", StrV("")),
             max_results |-> GetOr(arguments, "max_results", IntV(5)),
             search_depth |-> GetOr(arguments, "search_depth", StrV("basic"))]
      [] name = "weather" ->
            [latitude |-> GetOr(arguments, "latitude", IntV(0)),
             longitude |-> GetOr(arguments, "longitude", IntV(0)),
             days |-> GetOr(arguments, "days", IntV(1))]
      [] name = "geocode_location" ->
            [location |-> GetOr(arguments, "location", StrV(""))]
      [] name = "view_audit_log" ->
            [tool_name |-> Get(arguments, "tool_name"),
             limit |-> GetOr(arguments, "limit", IntV(ViewLimitDefault))]
      [] OTHER -> EmptyMap

\* a tool answers with an error that quotes what it was given, as
\* execute_sql_query does with its query (sql_tool.py lines 50-55)
QuotingOutcome(tool_args) ==
    [kind |-> "return",
     value |-> DictV([error |-> BoolV(TRUE), code |-> StrV("VALIDATION_ERROR"),
                      message |-> StrV("1 validation error"),
                      details |-> DictV(tool_args)]),
     repr |-> TextV("r", 120)]

\* the payload of view_audit_log (lines 282-286)
AuditView(entries) ==
    [value |-> DictV([success |-> BoolV(TRUE), entries |-> ListV(entries),
                      count |-> IntV(Len(entries))]),
     repr |-> TextV("r", 40 + 200 * Len(entries))]

\* the query view_audit_log makes (lines 278-281)
AuditViewFilter(arguments) ==
    Filter(NoneV, Get(arguments, "tool_name"), NoneV, NoneV, FALSE,
           GetOr(arguments, "limit", IntV(ViewLimitDefault))[2])

\* call_tool from its start to its first wait: the credential is popped,
\* the caller authenticated and authorized, and the tool invoked.  An
\* unknown tool, and view_audit_log on a sink that is not initialized, wait
\* for nothing and run on to the audit.
call_tool(t, name, arguments, elapsed) ==
    LET c0 == Received(name, arguments, elapsed)
        auth == Authenticated(c0)
    IN IF ~auth.ok
       THEN /\ calls' = [calls EXCEPT ![t] =
                [c0 EXCEPT !.pc = "done",
                           !.response = AuthErrorResponse(auth.message)]]
            /\ UNCHANGED uuid_next
       ELSE LET c1 == [c0 EXCEPT !.auth_context = auth.ctx]
                authz == Authorized(c1, auth.ctx)
            IN IF ~authz.ok
               THEN /\ calls' = [calls EXCEPT ![t] =
                        [c1 EXCEPT !.pc = "done",
                                   !.response = AuthErrorResponse(authz.message)]]
                    /\ UNCHANGED uuid_next
               ELSE LET c2 == [c1 EXCEPT !.executing = TRUE,
                                         !.tool_started = clock] IN
                    IF name \in ExternalTools
                       \/ (name = "view_audit_log" /\ _initialized)
                    THEN /\ calls' = [calls EXCEPT ![t] =
                             [c2 EXCEPT !.pc = "tool", !.tool_calls = 1,
                                        !.tool_args = ToolArgs(name, c2.arguments)]]
                         /\ UNCHANGED uuid_next
                    ELSE IF name = "view_audit_log"
                    THEN Finish(t, [c2 EXCEPT !.tool_calls = 1,
                                              !.tool_args = ToolArgs(name, c2.arguments)],
                                AuditView(<<>>), TRUE, NoneV)
                    ELSE Finish(t, c2,
                                [value |-> ErrorPayload("UNKNOWN_TOOL",
                                              "Unknown tool: " \o name),
                                 repr |-> ErrorRepr("Unknown tool: " \o name)],
                                FALSE, NoneV)

\* a caller invokes call_tool on an idle task with any tool name and any
\* arguments
CallTool(t) ==
    /\ calls[t].pc = "idle"
    /\ \E name \in ToolNames, arguments \in Arguments, elapsed \in 0..clock :
            call_tool(t, name, arguments, elapsed)
    /\ UNCHANGED <<settingsVars, authVars, sinkVars, clock, engine_count,
                   sinkHarnessVars, sanitizeVars>>

\* the requests of callers served at once: an admin who runs a query, an
\* analyst who reads the audit log, and a caller without a credential,
\* each authenticated in no time
ConcurrentRequests ==
    {[name |-> "sql_query",
      arguments |-> ("_api_key" :> StrV("sk-admin-key-01"))
                    @@ [query |-> StrV("SELECT 1"), limit |-> IntV(1)]],
     [name |-> "view_audit_log",
      arguments |-> ("_api_key" :> StrV("sk-analyst-key2"))
                    @@ [tool_name |-> StrV("sql_query"), password |-> StrV("pw")]],
     [name |-> "sql_query",
      arguments |-> [query |-> StrV("SELECT 1"), limit |-> IntV(1)]]}

CallToolConcurrently(t) ==
    /\ calls[t].pc = "idle"
    /\ \E r \in ConcurrentRequests : call_tool(t, r.name, r.arguments, 0)
    /\ UNCHANGED <<settingsVars, authVars, sinkVars, clock, engine_count,
                   sinkHarnessVars, sanitizeVars>>

\* the awaited tool returns or raises, and call_tool runs on to the audit
ToolReturn(t) ==
    /\ calls[t].pc = "tool"
    /\ IF calls[t].name \in ExternalTools
       THEN \E o \in ToolOutcomes \cup {QuotingOutcome(calls[t].tool_args)} :
                IF o.kind = "return"
                THEN Finish(t, calls[t], [value |-> o.value, repr |-> o.repr],
                            TRUE, NoneV)
                ELSE Finish(t, [calls[t] EXCEPT !.thrown = StrV(o.text)],
                            [value |-> ErrorPayload("EXECUTION_ERROR", o.text),
                             repr |-> ErrorRepr(o.text)],
                            FALSE, StrV(o.text))
       ELSE \E fails \in BOOLEAN :
                \E entries \in QueryResults(AuditViewFilter(calls[t].arguments), fails) :
                    Finish(t, calls[t], AuditView(entries), TRUE, NoneV)
    /\ UNCHANGED <<settingsVars, authVars, sinkVars, clock, engine_count,
                   sinkHarnessVars, sanitizeVars>>

\* A variant whose write replaces what the store held.
CommitReplacing(t) ==
    /\ calls[t].pc = "commit"
    /\ \E fails \in BOOLEAN :
        /\ store' = IF fails THEN store ELSE <<calls[t].row>>
        /\ calls' = [calls EXCEPT ![t] =
                [@ EXCEPT !.pc = "done", !.fault = fails,
                          !.log_result = IF fails THEN NoneV ELSE calls[t].row.id]]
    /\ UNCHANGED <<settingsVars, authVars, _engine, _async_session, _initialized,
                   envVars, sinkHarnessVars, sanitizeVars>>

\* A variant in which a failed write reaches the caller as an error.
CommitRaising(t) ==
    /\ calls[t].pc = "commit"
    /\ \E fails \in BOOLEAN :
        /\ store' = IF fails THEN store ELSE Append(store, calls[t].row)
        /\ calls' = [calls EXCEPT ![t] =
                [@ EXCEPT !.pc = "done", !.fault = fails,
                          !.log_result = IF fails THEN NoneV ELSE calls[t].row.id,
                          !.response = IF fails
                                       THEN ErrorPayload("EXECUTION_ERROR",
                                                         "Audit logging failed")
                                       ELSE @]]
    /\ UNCHANGED <<settingsVars, authVars, _engine, _async_session, _initialized,
                   envVars, sinkHarnessVars, sanitizeVars>>

\* the commit log() waits for ends: the row is stored and log returns its
\* id, or the storage fails, log() swallows the error and returns None;
\* call_tool drops what log returned and returns its response
Commit(t) ==
    /\ calls[t].pc = "commit"
    /\ \E fails \in BOOLEAN :
        /\ store' = IF fails THEN store ELSE Append(store, calls[t].row)
        /\ calls' = [calls EXCEPT ![t] =
                [@ EXCEPT !.pc = "done", !.fault = fails,
                          !.log_result = IF fails THEN NoneV ELSE calls[t].row.id]]
    /\ UNCHANGED <<settingsVars, authVars, _engine, _async_session, _initialized,
                   envVars, sinkHarnessVars, sanitizeVars>>

\* server.initialize(): the audit logger is initialized
Startup ==
    /\ engine_count < MaxEngines
    /\ \E connects \in BOOLEAN : initialize(connects)
    /\ UNCHANGED <<settingsVars, authVars, store, clock, uuid_next, calls,
                   sinkHarnessVars, sanitizeVars>>

\* server.shutdown(): the audit logger is closed
Shutdown ==
    /\ close
    /\ UNCHANGED <<settingsVars, authVars, store, envVars, calls,
                   sinkHarnessVars, sanitizeVars>>

---------------------------------------------------------------------------
(* The Authenticator interface called directly: authenticate, authorize *)

\* the capabilities of ROLE_PERMISSIONS, and a name that is none of them
Capabilities ==
    UNION {ROLE_PERMISSIONS[r] : r \in UserRoleMembers} \cup {"drop_tables"}

Authenticate ==
    /\ \E api_key \in Credentials \cup {StrV("ro")} :
        LET r == authenticate(api_key)
        IN /\ ret' = [op |-> "authenticate", api_key |-> api_key, result |-> r]
           /\ held' = IF r.ok THEN <<r.ctx>> ELSE held
    /\ UNCHANGED <<settingsVars, _api_key_cache, sinkVars, envVars, calls,
                   logged, sanitizeVars>>

Authorize ==
    /\ held # <<>>
    /\ \E tool_name \in Capabilities :
        ret' = [op |-> "authorize", auth_context |-> held[1],
                tool_name |-> tool_name, result |-> authorize(held[1], tool_name)]
    /\ UNCHANGED <<settingsVars, authVars, sinkVars, envVars, calls, logged,
                   sanitizeVars>>

---------------------------------------------------------------------------
(* execute_sql_query called directly *)

\* a text of n characters c
RECURSIVE Repeat(_, _)
Repeat(c, n) ==
    IF n = 0 THEN ""
    ELSE IF n = 1 THEN c
    ELSE Repeat(c, n \div 2) \o Repeat(c, n - n \div 2)

\* queries of each kind the validator tells apart: accepted ones in either
\* case and with whitespace around them, each forbidden keyword, a keyword
\* inside an identifier, a statement that is no SELECT, the empty text, a
\* text one character over the length allowed
SqlQueries ==
    {"SELECT 1", "select name from customers", "  SELECT 1", "SELECT 1 ",
     "\tSelect 1", "", " ", "SHOW TABLES", "DROP TABLE t", "delete from t",
     "INSERT INTO t VALUES (1)", "UPDATE t SET a = 1", "ALTER TABLE t",
     "TRUNCATE TABLE t", "EXEC p", "SELECT 1; DROP TABLE t", "SELECT 1 -- c",
     "SELECT id FROM t WHERE created_at > 1", "SELECTED", "WITH x AS (SELECT 1)",
     "SELECT " \o Repeat("1", QueryMaxLength - 6)}

SqlLimits ==
    {NoneV, IntV(0 - 1), IntV(0), IntV(LimitMin), IntV(100), IntV(LimitMax),
     IntV(LimitMax + 1)}

ExecuteSqlQuery ==
    /\ ret.op # "execute_sql_query"
    /\ \E query \in SqlQueries, limit \in SqlLimits, db \in DbOutcomes :
        LET r == execute_sql_query(StrV(query), limit, db)
        IN ret' = [op |-> "execute_sql_query", query |-> query, limit |-> limit,
                   db |-> db, result |-> r.result, db_calls |-> r.db_calls]
    /\ UNCHANGED <<settingsVars, authVars, calls, sinkVars, envVars, logged,
                   sanitizeVars>>

---------------------------------------------------------------------------
(* Specifications *)

\* Authenticator.__init__: the cache is loaded from the settings
AuthInit == _api_key_cache = _load_api_keys(api_keys) /\ held = <<>>

NoCalls == calls = [t \in {"t1"} |-> IdleCall]

\* AuditLogger.__init__, and an empty audit_logs table
SinkInit ==
    /\ _engine = NoneV
    /\ _async_session = NoneV
    /\ _initialized = FALSE
    /\ store = <<>>

EnvInit == clock = 0 /\ uuid_next = 0 /\ engine_count = 0

\* the AuditLogger interface, called in any order
InitSink ==
    /\ auth_enabled = TRUE
    /\ audit_enabled \in BOOLEAN
    /\ api_keys = KeyRoles
    /\ AuthInit /\ SinkInit /\ EnvInit /\ NoCalls /\ SinkHarnessIdle /\ SanitizeIdle

NextSink == Initialize \/ Log \/ Query \/ Close \/ Tick

SpecSink == InitSink /\ [][NextSink]_vars

\* _sanitize_input applied to every mapping of SanitizeInputs
InitSanitize ==
    /\ auth_enabled = TRUE /\ audit_enabled = TRUE
    /\ api_keys = KeyRoles
    /\ AuthInit /\ SinkInit /\ EnvInit /\ NoCalls /\ SinkHarnessIdle
    /\ sIn \in SanitizeInputs
    /\ sOut1 = EmptyMap /\ sOut2 = EmptyMap /\ sStep = 0

NextSanitize == Sanitize

SpecSanitize == InitSanitize /\ [][NextSanitize]_vars

\* the Authenticator interface, called in any order, under each setting of
\* auth_enabled and with the credential list loaded or empty
InitAuth ==
    /\ auth_enabled \in BOOLEAN
    /\ audit_enabled = TRUE
    /\ api_keys \in {KeyRoles, EmptyMap}
    /\ AuthInit /\ SinkInit /\ EnvInit /\ NoCalls /\ SinkHarnessIdle /\ SanitizeIdle

NextAuth == Authenticate \/ Authorize \/ Tick

SpecAuth == InitAuth /\ [][NextAuth]_vars

\* execute_sql_query, called once with any query and limit
InitSql ==
    /\ auth_enabled = TRUE /\ audit_enabled = TRUE
    /\ api_keys = KeyRoles
    /\ AuthInit /\ SinkInit /\ EnvInit /\ NoCalls /\ SinkHarnessIdle /\ SanitizeIdle

NextSql == ExecuteSqlQuery

SpecSql == InitSql /\ [][NextSql]_vars

\* a row an earlier run of the server left in the audit_logs table
PriorRow ==
    [id |-> <<"uuid", 0>>, timestamp |-> 0, user_id |-> "sk-analy...",
     user_role |-> "analyst", tool_name |-> "sql_query",
     input_data |-> json_dumps([query |-> StrV("SELECT 1")]),
     output_summary |-> TextV("r", 80), success |-> TRUE,
     error_message |-> NoneV, execution_time_ms |-> 1, ip_address |-> NoneV]

\* one invocation of call_tool, with the server started and shut down at
\* any time; the table is empty or holds a row of an earlier run
Init ==
    /\ auth_enabled \in BOOLEAN
    /\ audit_enabled \in BOOLEAN
    /\ api_keys = KeyRoles
    /\ AuthInit /\ EnvInit /\ NoCalls /\ SinkHarnessIdle /\ SanitizeIdle
    /\ _engine = NoneV /\ _async_session = NoneV /\ _initialized = FALSE
    /\ store \in {<<>>, <<PriorRow>>}

Next ==
    \/ \E t \in DOMAIN calls : CallTool(t)
    \/ \E t \in DOMAIN calls : ToolReturn(t)
    \/ \E t \in DOMAIN calls : Commit(t)
    \/ Startup
    \/ Shutdown
    \/ Tick

Spec == Init /\ [][Next]_vars

\* the table as an earlier run of the server left it, with one row more than
\* the default limit of view_audit_log, each written at a time of its own
RecentRows ==
    [i \in 1..(ViewLimitDefault + 1) |->
        [PriorRow EXCEPT !.id = <<"uuid", 0 - i>>,
                         !.timestamp = i - (ViewLimitDefault + 2)]]

\* one invocation of call_tool on a server whose audit_logs table holds
\* those rows
InitView ==
    /\ auth_enabled \in BOOLEAN
    /\ audit_enabled \in BOOLEAN
    /\ api_keys = KeyRoles
    /\ AuthInit /\ EnvInit /\ NoCalls /\ SinkHarnessIdle /\ SanitizeIdle
    /\ _engine = NoneV /\ _async_session = NoneV /\ _initialized = FALSE
    /\ store = RecentRows

SpecView == InitView /\ [][Next]_vars

\* two invocations of call_tool on one event loop: each runs from one await
\* to the next without interruption, and the other may run in between
TwoCalls == calls = [t \in {"t1", "t2"} |-> IdleCall]

InitConcurrent ==
    /\ auth_enabled = TRUE
    /\ audit_enabled = TRUE
    /\ api_keys = KeyRoles
    /\ AuthInit /\ SinkInit /\ EnvInit /\ TwoCalls /\ SinkHarnessIdle /\ SanitizeIdle

NextConcurrent ==
    \/ \E t \in DOMAIN calls : CallToolConcurrently(t)
    \/ \E t \in DOMAIN calls : ToolReturn(t)
    \/ \E t \in DOMAIN calls : Commit(t)
    \/ Startup
    \/ Shutdown
    \/ Tick

SpecConcurrent == InitConcurrent /\ [][NextConcurrent]_vars

---------------------------------------------------------------------------
(* Vocabulary of the properties *)

\* the credentials the loaded table answers for: those of the list whose
\* role name is one of admin, analyst, readonly
LoadedCredentials ==
    {k \in DOMAIN api_keys : Lower(api_keys[k]) \in {"admin", "analyst", "readonly"}}

\* a credential was presented and the loaded table does not hold it
UnknownCredential(api_key) ==
    Truthy(api_key) /\ api_key[2] \notin LoadedCredentials

\* authenticate has to fail on this credential: none presented, or unknown
AuthMustFail(api_key) == ~Truthy(api_key) \/ UnknownCredential(api_key)

\* the role an invocation runs under once authenticated
RoleOfCall(c) ==
    IF auth_enabled THEN UserRole(Lower(api_keys[c.api_key[2]])) ELSE "ADMIN"

\* the rows of the store that the log calls of invocation c wrote
EntriesOf(c) == {i \in DOMAIN store : store[i].id \in c.audit_ids}

\* the store holds nothing but what an earlier run left in it
StoreUntouched == \A i \in DOMAIN store : store[i] = PriorRow

\* the response is the structured error with this code
ErrorResponse(response, code) ==
    /\ IsDict(response)
    /\ Get(response[2], "error") = BoolV(TRUE)
    /\ Get(response[2], "code") = StrV(code)

\* the lowercase form of key contains one of the five secret-like words
SecretLike(key) ==
    \/ Contains(Lower(key), "password") \/ Contains(Lower(key), "api_key")
    \/ Contains(Lower(key), "token") \/ Contains(Lower(key), "secret")
    \/ Contains(Lower(key), "credential")

Marker == StrV("[REDACTED]")

\* value v holds, at some depth reached through mappings and sequences, a
\* secret-like key whose value is not the marker
RECURSIVE RawSecretAnywhere(_)
RawSecretAnywhere(v) ==
    CASE v[1] = "dict" ->
            \E k \in DOMAIN v[2] :
                IF SecretLike(k) THEN v[2][k] # Marker ELSE RawSecretAnywhere(v[2][k])
      [] v[1] = "list" -> \E i \in DOMAIN v[2] : RawSecretAnywhere(v[2][i])
      [] OTHER -> FALSE

\* the same, at the depths reached through mappings alone
RECURSIVE RawSecretInMappings(_)
RawSecretInMappings(v) ==
    CASE v[1] = "dict" ->
            \E k \in DOMAIN v[2] :
                IF SecretLike(k) THEN v[2][k] # Marker ELSE RawSecretInMappings(v[2][k])
      [] OTHER -> FALSE

\* out is what the sanitize of the specification makes of the mapping in
RECURSIVE SanitizedAs(_, _)
SanitizedAs(in, out) ==
    /\ DOMAIN out = DOMAIN in
    /\ \A k \in DOMAIN in :
        IF SecretLike(k) THEN out[k] = Marker
        ELSE IF in[k][1] = "dict"
             THEN out[k][1] = "dict" /\ SanitizedAs(in[k][2], out[k][2])
             ELSE out[k] = in[k]

---------------------------------------------------------------------------
(* Properties *)

\* C1: an invocation that got past authentication and authorization, with
\* auditing enabled, the sink initialized when log was called and the
\* storage accepting the write, has exactly one row in the store once it has
\* responded, whatever the tool did; and no invocation ever has two.
C1_ExactlyOneEntry ==
    \A t \in DOMAIN calls :
        /\ Cardinality(EntriesOf(calls[t])) <= 1
        /\ (/\ calls[t].pc = "done" /\ calls[t].executing /\ audit_enabled
            /\ calls[t].sink_ready /\ ~calls[t].fault)
           => Cardinality(EntriesOf(calls[t])) = 1

\* C1 witness: a tool raised, and the invocation has its one row
C1_Witness ==
    \E t \in DOMAIN calls :
        /\ calls[t].pc = "done" /\ calls[t].executing
        /\ ErrorResponse(calls[t].response, "EXECUTION_ERROR")
        /\ Cardinality(EntriesOf(calls[t])) = 1
        /\ Len(store) = 2

\* C2: with auth enabled, an invocation whose credential is missing or not
\* in the table responds error=true, code AUTH_ERROR; no tool was invoked,
\* log was not called, and the store is as it was.
C2_AuthFailureNotAudited ==
    \A t \in DOMAIN calls :
        (calls[t].pc = "done" /\ auth_enabled /\ AuthMustFail(calls[t].api_key))
        => /\ ErrorResponse(calls[t].response, "AUTH_ERROR")
           /\ calls[t].tool_calls = 0
           /\ calls[t].log_calls = 0
           /\ StoreUntouched

\* C2 witness: a credential that is not in the table was refused, with a
\* row of an earlier run in the store
C2_Witness ==
    \E t \in DOMAIN calls :
        /\ calls[t].pc = "done" /\ auth_enabled /\ _initialized
        /\ calls[t].api_key = StrV("sk-admin-key-99")
        /\ ErrorResponse(calls[t].response, "AUTH_ERROR")
        /\ store = <<PriorRow>>

\* C3: an authenticated invocation whose role does not hold the capability
\* its tool maps to responds error=true, code AUTH_ERROR; no tool was
\* invoked, log was not called, and the store is as it was.
C3_AuthzFailureNotAudited ==
    \A t \in DOMAIN calls :
        (/\ calls[t].pc = "done"
         /\ ~(auth_enabled /\ AuthMustFail(calls[t].api_key))
         /\ calls[t].name \in DOMAIN tool_permission_map
         /\ tool_permission_map[calls[t].name]
                \notin ROLE_PERMISSIONS[RoleOfCall(calls[t])])
        => /\ ErrorResponse(calls[t].response, "AUTH_ERROR")
           /\ calls[t].tool_calls = 0
           /\ calls[t].log_calls = 0
           /\ StoreUntouched

\* C3 witness: the readonly credential was refused web_search
C3_Witness ==
    \E t \in DOMAIN calls :
        /\ calls[t].pc = "done" /\ auth_enabled /\ _initialized
        /\ calls[t].api_key = StrV("sk-readonly-key")
        /\ calls[t].name = "web_search"
        /\ calls[t].response =
              ErrorPayload("AUTH_ERROR", "Role 'readonly' cannot access tool 'search'")
        /\ store = <<PriorRow>>

\* C4: authorize(context, capability) returns true iff the capability is in
\* the permission table's set for the context's role, and otherwise fails
\* with an AuthorizationError naming that role and that capability; readonly
\* lacks search and view_audit, analyst lacks manage_users, admin holds all
\* six capabilities.
C4_AuthorizeIffPermitted ==
    ret.op = "authorize" =>
        LET role == ret.auth_context.role
            cap == ret.tool_name
        IN /\ ret.result.ok <=> cap \in ROLE_PERMISSIONS[role]
           /\ ~ret.result.ok =>
                /\ ret.result.error = "AuthorizationError"
                /\ ret.result.message =
                     "Role '" \o RoleValue(role) \o "' cannot access tool '"
                     \o cap \o "'"
           /\ (role = "READONLY" /\ cap \in {"search", "view_audit"})
                => ~ret.result.ok
           /\ (role = "ANALYST" /\ cap = "manage_users") => ~ret.result.ok
           /\ (role = "ADMIN"
                /\ cap \in {"sql_query", "search", "weather", "geocoding",
                            "view_audit", "manage_users"})
                => ret.result.ok

\* C4 witness: the context of the readonly credential was refused search
C4_Witness ==
    /\ ret.op = "authorize"
    /\ ret.auth_context.user_id = "sk-reado..."
    /\ ret.tool_name = "search"
    /\ ret.result =
         AuthorizationError("Role 'readonly' cannot access tool 'search'")

\* C5: with auth enabled, authenticate of a presented credential that the
\* loaded table does not hold fails with "Invalid API key" and yields no
\* AuthContext, after any calls of authenticate and authorize; and those
\* calls leave the table as it was loaded.
C5_UnknownCredentialRejected ==
    /\ _api_key_cache = _load_api_keys(api_keys)
    /\ (ret.op = "authenticate" /\ auth_enabled /\ UnknownCredential(ret.api_key))
        => ret.result = AuthenticationError("Invalid API key")

\* C5 witness: after a successful authenticate, a credential that shares
\* its first characters with the admin's was refused
C5_Witness ==
    /\ ret.op = "authenticate" /\ auth_enabled
    /\ ret.api_key = StrV("sk-admin-key-99")
    /\ held # <<>>
    /\ ret.result = AuthenticationError("Invalid API key")

\* C6, as claimed: an invocation of a tool name that is not in the
\* tool-name -> capability table responds UNKNOWN_TOOL whatever credential
\* it presents.
C6_UnknownToolBeforeAuth ==
    \A t \in DOMAIN calls :
        (calls[t].pc = "done" /\ calls[t].name \notin DOMAIN tool_permission_map)
        => ErrorResponse(calls[t].response, "UNKNOWN_TOOL")

\* C6, amended: an invocation of a tool name that is not in the table is
\* authenticated first: with auth enabled and a missing or unknown
\* credential it responds AUTH_ERROR and is not audited; otherwise it
\* responds UNKNOWN_TOOL, whatever the caller's role, with no tool invoked.
C6_UnknownToolAfterAuth ==
    \A t \in DOMAIN calls :
        (calls[t].pc = "done" /\ calls[t].name \notin DOMAIN tool_permission_map)
        => IF auth_enabled /\ AuthMustFail(calls[t].api_key)
           THEN /\ ErrorResponse(calls[t].response, "AUTH_ERROR")
                /\ calls[t].log_calls = 0
           ELSE /\ ErrorResponse(calls[t].response, "UNKNOWN_TOOL")
                /\ calls[t].tool_calls = 0

\* C6 witness: the readonly credential asked for an unknown tool and was
\* answered UNKNOWN_TOOL
C6_Witness ==
    \E t \in DOMAIN calls :
        /\ calls[t].pc = "done" /\ auth_enabled
        /\ calls[t].name = "no_such_tool"
        /\ calls[t].api_key = StrV("sk-readonly-key")
        /\ ErrorResponse(calls[t].response, "UNKNOWN_TOOL")

\* C7, as claimed: no row of the store holds in its input, at any depth, a
\* value other than the marker under a secret-like key.
C7_NoRawSecretAnywhere ==
    \A i \in DOMAIN store :
        ~RawSecretAnywhere(DictV(json_loads(store[i].input_data)))

\* C7, amended: no row of the store holds in its input, at any depth
\* reached through nested mappings, a value other than the marker under a
\* secret-like key; mappings inside sequences are stored as given.
C7_NoRawSecretInMappings ==
    \A i \in DOMAIN store :
        ~RawSecretInMappings(DictV(json_loads(store[i].input_data)))

\* C7 witness: an invocation whose arguments held secrets at two depths has
\* its row, both redacted
C7_Witness ==
    \E i \in DOMAIN store :
        LET input == json_loads(store[i].input_data)
        IN /\ store[i] # PriorRow
           /\ "password" \in DOMAIN input /\ input["password"] = Marker
           /\ "opts" \in DOMAIN input
           /\ input["opts"] = DictV([Auth_Token |-> Marker, n |-> IntV(1)])

\* C8: sanitizing what sanitize returned changes nothing.
C8_SanitizeIdempotent == sStep = 2 => sOut2 = sOut1

\* C8 witness: a mapping holding the marker itself and a nested secret was
\* sanitized twice
C8_Witness ==
    /\ sStep = 2
    /\ sIn = [password |-> Marker, nested |-> DictV([api_key |-> StrV("y")])]
    /\ sOut1 # sIn
    /\ sOut2 = sOut1

\* C9: sanitize returns a mapping with the keys of its input, the marker
\* under every secret-like key, the sanitized form of every other mapping
\* value, and every other value, sequences of mappings included, unchanged;
\* {"password":"x","nested":{"api_key":"y","z":1}} becomes
\* {"password":"[REDACTED]","nested":{"api_key":"[REDACTED]","z":1}}.
C9_SanitizeShape ==
    sStep >= 1 =>
        /\ SanitizedAs(sIn, sOut1)
        /\ sIn = [password |-> StrV("x"),
                  nested |-> DictV([api_key |-> StrV("y"), z |-> IntV(1)])]
            => sOut1 = [password |-> Marker,
                        nested |-> DictV([api_key |-> Marker, z |-> IntV(1)])]

\* C9 witness: a key in capitals was redacted and a sequence holding a
\* mapping with a password came back unchanged
C9_Witness ==
    /\ sStep >= 1
    /\ sIn = [API_Key |-> StrV("x"),
              z |-> ListV(<<DictV([password |-> StrV("p")]), StrV("x")>>)]
    /\ sOut1 = [API_Key |-> Marker,
                z |-> ListV(<<DictV([password |-> StrV("p")]), StrV("x")>>)]

\* the row with this id satisfies the filters f, in the specification's
\* sense: a filter that is None, empty or false is not supplied
Selects(f, row) ==
    /\ Truthy(f.user_id) => row.user_id = f.user_id[2]
    /\ Truthy(f.tool_name) => row.tool_name = f.tool_name[2]
    /\ ~IsNone(f.start_time) => row.timestamp >= f.start_time[2]
    /\ ~IsNone(f.end_time) => row.timestamp <= f.end_time[2]
    /\ f.success_only => row.success

\* the first 1000 characters of a text
First1000(text) == IF text[3] <= 1000 THEN text ELSE TextV(text[2], 1000)

\* C10: on an initialized sink whose storage does not fail, a query with a
\* limit of at least 1 whose filters select only the row of one log call
\* returns exactly one entry: its id is the id log returned, its identity,
\* role, tool name, success, error message, execution time and origin are
\* those logged, and its summary is the first 1000 characters of the
\* logged output.
C10_LogQueryRoundTrip ==
    (ret.op = "query" /\ _initialized /\ ~ret.fails /\ ret.filters.limit >= 1)
    => \A p \in logged :
        {r.id : r \in {store[i] : i \in {j \in DOMAIN store :
                                            Selects(ret.filters, store[j])}}} = {p[1]}
        => /\ Len(ret.result) = 1
           /\ ret.result[1].id = p[1]
           /\ ret.result[1].user_id = p[2].user_id
           /\ ret.result[1].user_role = p[2].user_role
           /\ ret.result[1].tool_name = p[2].tool_name
           /\ ret.result[1].success = p[2].success
           /\ ret.result[1].error_message = p[2].error_message
           /\ ret.result[1].execution_time_ms = p[2].execution_time_ms
           /\ ret.result[1].ip_address = p[2].ip_address
           /\ ret.result[1].output_summary = First1000(p[2].output_summary)

\* C10 witness: of two rows, a query by identity returned the one whose
\* logged output was longer than 1000 characters, cut to 1000
C10_Witness ==
    /\ ret.op = "query" /\ _initialized /\ ~ret.fails
    /\ Len(store) = 2
    /\ ret.filters.user_id = StrV("sk-admin...")
    /\ Len(ret.result) = 1
    /\ \E p \in logged :
        /\ p[1] = ret.result[1].id
        /\ p[2].output_summary = LongText
    /\ ret.result[1].output_summary = TextV("o", 1000)

\* the rows of the store that satisfy every supplied filter of f
MatchingRows(f) == {store[i] : i \in {j \in DOMAIN store : Selects(f, store[j])}}

\* what a query with filters f has to return, but for the order of the
\* timestamps: entries of distinct matching rows, as many as the limit
\* allows, and none older than a matching row that was left out
AnswersQuery(f, result) ==
    /\ \A i \in DOMAIN result :
        \E row \in MatchingRows(f) :
            /\ row.id = result[i].id
            /\ row.timestamp = result[i].timestamp
            /\ row.user_id = result[i].user_id
            /\ row.tool_name = result[i].tool_name
            /\ row.success = result[i].success
    /\ \A i, j \in DOMAIN result : i # j => result[i].id # result[j].id
    /\ Len(result) = Min(f.limit, Cardinality(MatchingRows(f)))
    /\ \A row \in MatchingRows(f) :
        (\A i \in DOMAIN result : result[i].id # row.id)
        => \A i \in DOMAIN result : result[i].timestamp >= row.timestamp

\* a query was answered by an initialized sink whose storage did not fail
\* the read, under a limit that is not negative
QueryAnswered ==
    ret.op = "query" /\ _initialized /\ ~ret.fails /\ ret.filters.limit >= 0

\* C11, as claimed: query on an initialized sink returns exactly the entries
\* that satisfy every supplied filter, at most limit of them, the newest
\* ones, in strictly descending order of timestamp.
C11_QueryStrictlyDescending ==
    QueryAnswered =>
        /\ AnswersQuery(ret.filters, ret.result)
        /\ \A i, j \in DOMAIN ret.result :
            i < j => ret.result[i].timestamp > ret.result[j].timestamp

\* C11, amended: query on an initialized sink whose storage does not fail,
\* with a limit that is not negative, returns exactly the entries that
\* satisfy every supplied filter (a filter that is None, empty or false is
\* not supplied), at most limit of them, the newest ones, in descending
\* order of timestamp; entries of equal timestamp come in any order.
C11_QueryDescending ==
    QueryAnswered =>
        /\ AnswersQuery(ret.filters, ret.result)
        /\ \A i, j \in DOMAIN ret.result :
            i < j => ret.result[i].timestamp >= ret.result[j].timestamp

\* C11 witness: of two rows of one identity logged at different times, a
\* query by that identity under limit 1 returned the newer
C11_Witness ==
    /\ QueryAnswered
    /\ Len(store) = 2
    /\ store[1].timestamp < store[2].timestamp
    /\ ret.filters.user_id = StrV("sk-reado...")
    /\ store[1].user_id = "sk-reado..." /\ store[2].user_id = "sk-reado..."
    /\ ret.filters.limit = 1
    /\ Len(ret.result) = 1
    /\ ret.result[1].id = store[2].id

\* C12: a log call made while auditing is disabled or the sink is not
\* initialized (never initialized, initialization failed, or closed)
\* returns no id and leaves the audit store as it was.
C12_LogNoOpWhenNotReady ==
    [][(Log /\ (~audit_enabled \/ ~_initialized))
       => (ret'.result = NoneV /\ store' = store /\ logged' = logged)]_vars

\* C12 witness: a sink that had stored a row was closed, and the log call
\* that followed returned no id and stored nothing
C12_Witness ==
    /\ ret.op = "log" /\ ret.result = NoneV
    /\ audit_enabled /\ ~_initialized /\ _engine # NoneV
    /\ Len(store) = 1 /\ Cardinality(logged) = 1
    /\ uuid_next = 1

\* C13: when the storage fails the write of log, the invocation still ends
\* with a response and not an error of the sink: log returned no id, was
\* called once and drew one id, nothing of the invocation is in the store,
\* and the response is the payload the tool's outcome gave, error-flagged
\* only when that outcome was.
C13_LogFailureSwallowed ==
    \A t \in DOMAIN calls :
        (calls[t].pc = "done" /\ calls[t].fault)
        => /\ calls[t].log_result = NoneV
           /\ calls[t].log_calls = 1
           /\ Cardinality(calls[t].audit_ids) = 1
           /\ EntriesOf(calls[t]) = {}
           /\ calls[t].response = calls[t].result
           /\ calls[t].success => ~ErrorResponse(calls[t].response, "EXECUTION_ERROR")

\* C13 witness: a tool succeeded, the write of its audit row failed, and the
\* caller got the tool's payload
C13_Witness ==
    \E t \in DOMAIN calls :
        /\ calls[t].pc = "done" /\ calls[t].fault
        /\ calls[t].name = "sql_query"
        /\ calls[t].response = DictV([success |-> BoolV(TRUE), row_count |-> IntV(1)])
        /\ calls[t].log_result = NoneV
        /\ store = <<PriorRow>>

\* C14: every call of initialize returns to its caller, whether the storage
\* accepts the connection or not, and leaves the store as it was; a call on
\* an initialized sink changes nothing: no engine is opened, the engine and
\* the session factory are those it had, and the sink stays initialized.
C14_InitializeIdempotent ==
    [][Initialize
       => /\ ret'.op = "initialize"
          /\ store' = store
          /\ _initialized
             => /\ _initialized'
                /\ engine_count' = engine_count
                /\ _engine' = _engine
                /\ _async_session' = _async_session]_vars

\* C14 witness: initialize returned on a sink that was initialized and had
\* stored a row, with the one engine that was ever opened
C14_Witness ==
    /\ ret.op = "initialize"
    /\ _initialized /\ engine_count = 1 /\ _engine = <<"engine", 1>>
    /\ Len(store) >= 1

\* an initialization has failed and none has succeeded: an engine was
\* created, and the session factory, made after the connection, never was
FailedInit == _engine # NoneV /\ _async_session = NoneV /\ ~_initialized

\* the sink has persisted nothing and the last call returned nothing of it
NothingAudited ==
    /\ store = <<>>
    /\ ret.op = "query" => ret.result = <<>>
    /\ ret.op = "log" => ret.result = NoneV

\* C15, as claimed: once an initialization has failed, auditing is disabled
\* for good: whatever call of initialize, log, query or close comes next,
\* the sink is still one whose initialization failed, and nothing has been
\* persisted or returned.
C15_DisabledForLifetime ==
    [][FailedInit => (FailedInit' /\ NothingAudited')]_vars

\* C15, amended: after a failed initialization the sink is not initialized,
\* and as long as no later initialize has succeeded log persists nothing
\* and query returns nothing; a later initialize tries the storage again,
\* and when the storage then accepts the connection the sink is initialized.
C15_DisabledUntilReinitialized ==
    /\ [](FailedInit => NothingAudited)
    /\ [][(Initialize /\ FailedInit /\ ret'.connects) => _initialized']_vars

\* C15 witness: after a failed initialization a log call returned no id
C15_Witness ==
    /\ FailedInit
    /\ ret.op = "log" /\ ret.result = NoneV
    /\ store = <<>> /\ uuid_next = 0

\* C16: every call of query returns a sequence of entries to its caller,
\* and the empty one when the sink is not initialized (auditing disabled,
\* so that initialize opened nothing, included) and when the storage fails
\* the read.
C16_QueryFailsQuiet ==
    ret.op = "query" =>
        /\ DOMAIN ret.result = 1..Len(ret.result)
        /\ ~_initialized => ret.result = <<>>
        /\ ~audit_enabled => (_engine = NoneV /\ ret.result = <<>>)
        /\ ret.fails => ret.result = <<>>

\* C16 witness: an initialized sink held a row that the filters of a query
\* match, the storage failed the read, and query returned the empty sequence
C16_Witness ==
    /\ ret.op = "query" /\ ret.fails /\ _initialized
    /\ ret.filters.limit = 100
    /\ MatchingRows(ret.filters) # {}
    /\ ret.result = <<>>

\* C17: every call of close, in any state of the sink, returns with the
\* sink not initialized and the store as it was, and a call of close on a
\* sink that is not initialized (never initialized, initialization failed,
\* already closed) changes nothing: a second close leaves what the first left.
C17_CloseIdempotent ==
    [][Close
       => /\ ret'.op = "close"
          /\ ~_initialized'
          /\ store' = store
          /\ ~_initialized => UNCHANGED <<sinkVars, engine_count>>]_vars

\* C17 witness: a sink that had stored a row is closed
C17_Witness ==
    /\ ret.op = "close"
    /\ ~_initialized /\ _engine # NoneV /\ _async_session # NoneV
    /\ Len(store) >= 1

\* C18: the identity of the AuthContext that authenticate returns for a
\* loaded credential, of any length, is not the credential and does not
\* contain it.
C18_IdentityHidesCredential ==
    (ret.op = "authenticate" /\ auth_enabled /\ ret.result.ok)
    => /\ ret.result.ctx.user_id # ret.api_key[2]
       /\ ~Contains(ret.result.ctx.user_id, ret.api_key[2])

\* C19: with auth disabled every invocation runs as "anonymous" with role
\* admin whatever credential it presents, none is refused, and the entries
\* it writes carry that identity and role; with auth enabled no entry an
\* invocation writes carries the identity "anonymous".
C19_AuthDisabledDistinguishable ==
    /\ \A t \in DOMAIN calls :
        (~auth_enabled /\ calls[t].pc \in {"tool", "commit", "done"})
        => /\ calls[t].executing
           /\ calls[t].auth_context.user_id = "anonymous"
           /\ calls[t].auth_context.role = "ADMIN"
    /\ \A i \in DOMAIN store :
        store[i] # PriorRow
        => IF auth_enabled
           THEN store[i].user_id # "anonymous"
           ELSE store[i].user_id = "anonymous" /\ store[i].user_role = "admin"

\* C19 witness: with auth disabled, an invocation presenting the readonly
\* credential ran web_search, which that credential's role may not, and its
\* entry carries the identity "anonymous"
C19_Witness ==
    \E t \in DOMAIN calls :
        /\ ~auth_enabled
        /\ calls[t].pc = "done" /\ calls[t].api_key = StrV("sk-readonly-key")
        /\ calls[t].name = "web_search" /\ calls[t].tool_calls = 1
        /\ \E i \in EntriesOf(calls[t]) :
            store[i].user_id = "anonymous" /\ store[i].user_role = "admin"

\* the pairs of the configured list whose role name is none of admin,
\* analyst, readonly, in any case of letters
DroppedCredentials == DOMAIN api_keys \ LoadedCredentials

\* C20: the loaded table holds no entry for a credential whose role name is
\* not a role, and holds every other credential of the list with the role
\* its pair names; with auth enabled, presenting a dropped credential fails
\* with "Invalid API key", as an unknown credential does, and presenting
\* another credential of the list succeeds with its role.
C20_LoadDefaultClosed ==
    /\ \A k \in DroppedCredentials : _hash_key(k) \notin DOMAIN _api_key_cache
    /\ \A k \in LoadedCredentials :
        /\ _hash_key(k) \in DOMAIN _api_key_cache
        /\ RoleValue(_api_key_cache[_hash_key(k)][2]) = Lower(api_keys[k])
    /\ (ret.op = "authenticate" /\ auth_enabled /\ Truthy(ret.api_key))
       => /\ ret.api_key[2] \in DroppedCredentials
             => ret.result = AuthenticationError("Invalid API key")
          /\ ret.api_key[2] \in LoadedCredentials
             => /\ ret.result.ok
                /\ RoleValue(ret.result.ctx.role) = Lower(api_keys[ret.api_key[2]])

\* C20 witness: from a list with a pair of role name "superuser", another
\* credential had been let in, and the credential of that pair was refused
C20_Witness ==
    /\ ret.op = "authenticate" /\ auth_enabled
    /\ ret.api_key = StrV("sk-root-key-000")
    /\ "sk-root-key-000" \in DOMAIN api_keys
    /\ api_keys["sk-root-key-000"] = "superuser"
    /\ ret.result = AuthenticationError("Invalid API key")
    /\ held # <<>>

\* the tool of invocation c raised, and c has responded
ToolThrew(c) == c.pc = "done" /\ c.thrown # NoneV

\* C21, as claimed: when the tool of an authorized invocation raises, the
\* response is the EXECUTION_ERROR payload and the invocation's audit entry
\* has success false and an error message that is not empty, whatever the
\* text of the exception.
C21_FaultHasNonEmptyMessage ==
    \A t \in DOMAIN calls :
        ToolThrew(calls[t])
        => /\ ErrorResponse(calls[t].response, "EXECUTION_ERROR")
           /\ \A i \in EntriesOf(calls[t]) :
                /\ ~store[i].success
                /\ Truthy(store[i].error_message)

\* C21, amended: when the tool of an authorized invocation raises, the
\* invocation still responds, with the EXECUTION_ERROR payload carrying the
\* text of the exception, and its audit entry - the one entry it has when
\* auditing is enabled, the sink initialized and the write accepted - has
\* success false and that text as error message: not empty when the text
\* is not, and empty when the exception has no text.
C21_FaultHasItsText ==
    \A t \in DOMAIN calls :
        ToolThrew(calls[t])
        => /\ calls[t].response =
                ErrorPayload("EXECUTION_ERROR", calls[t].thrown[2])
           /\ (audit_enabled /\ calls[t].sink_ready /\ ~calls[t].fault)
                => Cardinality(EntriesOf(calls[t])) = 1
           /\ \A i \in EntriesOf(calls[t]) :
                /\ ~store[i].success
                /\ store[i].error_message = calls[t].thrown
                /\ Truthy(store[i].error_message) <=> calls[t].thrown[2] # ""

\* C21 witness: sql_query of the admin credential raised "boom", and the
\* invocation has its entry with success false and that message
C21_Witness ==
    \E t \in DOMAIN calls :
        /\ ToolThrew(calls[t]) /\ auth_enabled
        /\ calls[t].name = "sql_query"
        /\ calls[t].api_key = StrV("sk-admin-key-01")
        /\ calls[t].response = ErrorPayload("EXECUTION_ERROR", "boom")
        /\ \E i \in EntriesOf(calls[t]) :
            ~store[i].success /\ store[i].error_message = StrV("boom")

\* the result of invocation c is a mapping with an error flag that is set
ErrorFlagged(c) == IsDict(c.result) /\ Truthy(Get(c.result[2], "error"))

\* C22: the audit entry of an executed invocation has success false and the
\* text of the exception as error message when the tool raised; success
\* false and the message of the result when the tool returned a result
\* whose error flag is set ("Unknown error" when that result has no
\* message); and success true in every other case, a result without error
\* flag or with a false one included.
C22_OutcomeNormalization ==
    \A t \in DOMAIN calls :
        \A i \in EntriesOf(calls[t]) :
            IF calls[t].thrown # NoneV
            THEN ~store[i].success /\ store[i].error_message = calls[t].thrown
            ELSE IF ErrorFlagged(calls[t])
            THEN /\ ~store[i].success
                 /\ store[i].error_message =
                        IF "message" \in DOMAIN calls[t].result[2]
                        THEN calls[t].result[2]["message"]
                        ELSE StrV("Unknown error")
            ELSE store[i].success

\* C22 witness: the tool returned a ToolError without raising, and the
\* entry of the invocation has success false and the ToolError's message
C22_Witness ==
    \E t \in DOMAIN calls :
        /\ calls[t].pc = "done" /\ calls[t].thrown = NoneV
        /\ calls[t].tool_calls = 1
        /\ calls[t].result =
            ErrorPayload("VALIDATION_ERROR", "Only SELECT queries are permitted")
        /\ \E i \in EntriesOf(calls[t]) :
            /\ ~store[i].success
            /\ store[i].error_message = StrV("Only SELECT queries are permitted")

\* C23: whatever the server does next - initialize, an invocation of
\* call_tool with its query or its log, shutdown - every row of the audit
\* store is still there and reads as it did: the store only grows, at its end.
C23_AppendOnly ==
    [][/\ Len(store') >= Len(store)
       /\ \A i \in DOMAIN store : store'[i] = store[i]]_vars

\* C23 witness: the row of an earlier run and the row of an invocation are
\* both in the store after the sink was closed
C23_Witness ==
    /\ Len(store) = 2 /\ store[1] = PriorRow
    /\ ~_initialized /\ _engine # NoneV
    /\ \E t \in DOMAIN calls :
        calls[t].pc = "done" /\ EntriesOf(calls[t]) = {2}

\* C24: view_audit_log never returns more entries than the maximum of the
\* recent-activity view, 20, whatever limit the caller supplies.
C24_ViewBounded ==
    \A t \in DOMAIN calls :
        (calls[t].pc = "done" /\ calls[t].name = "view_audit_log"
         /\ calls[t].executing /\ calls[t].thrown = NoneV)
        => /\ Get(calls[t].response[2], "count")[2] <= ViewLimitDefault
           /\ Len(Get(calls[t].response[2], "entries")[2]) <= ViewLimitDefault


\* the row is the audit entry of invocation c: it carries c's identity,
\* role, tool name, sanitized input and outcome
EntryOfCall(row, c) ==
    /\ row.user_id = c.auth_context.user_id
    /\ row.user_role = RoleValue(c.auth_context.role)
    /\ row.tool_name = c.name
    /\ row.input_data = json_dumps(_sanitize_input(c.arguments))
    /\ row.success = c.success
    /\ row.error_message = c.error_message

\* C25: in every interleaving of two invocations at their waits (the tool
\* call, the commit of the audit row), the rows of the store have pairwise
\* distinct ids, no row belongs to two invocations, each invocation that
\* reached execution and whose write went through has exactly one row, which
\* carries its own identity, role, tool name, input and outcome, and each
\* caller gets the response of its own invocation: the result of its own
\* execution, or the AUTH_ERROR its own credential earned.
C25_IndependentInvocations ==
    /\ \A i, j \in DOMAIN store : i # j => store[i].id # store[j].id
    /\ \A t, u \in DOMAIN calls :
        t # u => calls[t].audit_ids \cap calls[u].audit_ids = {}
    /\ \A t \in DOMAIN calls :
        /\ Cardinality(EntriesOf(calls[t])) <= 1
        /\ \A i \in EntriesOf(calls[t]) : EntryOfCall(store[i], calls[t])
        /\ (/\ calls[t].pc = "done" /\ calls[t].executing
            /\ calls[t].sink_ready /\ ~calls[t].fault)
           => Cardinality(EntriesOf(calls[t])) = 1
        /\ (calls[t].pc = "done" /\ calls[t].executing)
           => calls[t].response = calls[t].result
        /\ (calls[t].pc = "done" /\ ~calls[t].executing)
           => /\ ErrorResponse(calls[t].response, "AUTH_ERROR")
              /\ \/ AuthMustFail(calls[t].api_key)
                 \/ ~authorize(calls[t].auth_context,
                               tool_permission_map[calls[t].name]).ok

\* C25 witness: two invocations by different callers were in flight at the
\* same time, both are done, and the store holds the row of each, the
\* second caller's written first
C25_Witness ==
    /\ calls["t1"].pc = "done" /\ calls["t2"].pc = "done"
    /\ Len(store) = 2
    /\ store[1].id \in calls["t2"].audit_ids
    /\ store[2].id \in calls["t1"].audit_ids
    /\ store[1].id = <<"uuid", 2>>
    /\ store[1].user_id # store[2].user_id
    /\ store[1].tool_name # store[2].tool_name
    /\ calls["t1"].response # calls["t2"].response


\* one of the forbidden keywords occurs in the upper-cased text
HasForbiddenKeyword(query) ==
    \E kw \in {"DROP", "DELETE", "INSERT", "UPDATE", "ALTER", "CREATE", "TRUNCATE",
               "EXEC", "EXECUTE", "--", ";"} : Contains(Upper(query), kw)

LimitInRange(limit) == limit[1] = "int" /\ limit[2] >= 1 /\ limit[2] <= 1000

\* the call was answered with a VALIDATION_ERROR and the database was not
\* given anything
RejectedUnrun ==
    ErrorResponse(ret.result, "VALIDATION_ERROR") /\ ret.db_calls = 0

\* C26 as stated: a query whose upper-cased text holds a forbidden keyword
\* or does not start with SELECT, and a limit outside 1..1000, are rejected
\* with VALIDATION_ERROR and nothing is run; what reaches the database
\* passed the three checks.
C26_RejectsUnlessSelect ==
    ret.op = "execute_sql_query" =>
        LET failing == \/ HasForbiddenKeyword(ret.query)
                       \/ ~StartsWith(Upper(ret.query), "SELECT")
                       \/ ~LimitInRange(ret.limit)
        IN /\ failing => RejectedUnrun
           /\ ret.db_calls > 0 => ~failing

\* C26 as the code has it: the same, with the start of the query judged
\* after the whitespace around it is dropped.
C26_RejectsUnlessTrimmedSelect ==
    ret.op = "execute_sql_query" =>
        LET failing == \/ HasForbiddenKeyword(ret.query)
                       \/ ~StartsWith(Upper(Strip(ret.query)), "SELECT")
                       \/ ~LimitInRange(ret.limit)
        IN /\ failing => RejectedUnrun
           /\ ret.db_calls > 0 => ~failing

\* C26 witness: a SELECT whose column name holds CREATE was rejected unrun
\* although its limit was in range
C26_Witness ==
    /\ ret.op = "execute_sql_query"
    /\ ret.query = "SELECT id FROM t WHERE created_at > 1"
    /\ ret.limit = IntV(100)
    /\ RejectedUnrun


\* the steps of the dispatcher's order: from Received a call goes to the
\* tool (Executing), to the audit write or straight to its response; from
\* the tool to the audit write or the response; from the audit write to the
\* response
OrderedSteps ==
    {<<"idle", "tool">>, <<"idle", "commit">>, <<"idle", "done">>,
     <<"tool", "commit">>, <<"tool", "done">>, <<"commit", "done">>}

\* what holds of an invocation at every moment of the order
InOrder(c) ==
    /\ c.tool_calls > 0 =>
        /\ c.executing
        /\ auth_enabled => ~AuthMustFail(c.api_key)
        /\ authorize(c.auth_context, tool_permission_map[c.name]).ok
    /\ (c.log_calls > 0 \/ c.audit_ids # {}) =>
        /\ c.executing /\ c.pc \in {"commit", "done"}
        /\ c.name \in DOMAIN tool_permission_map =>
            (c.tool_calls = 1 /\ c.result # NoneV)
    /\ (c.pc = "done" /\ ~c.executing) =>
        /\ ErrorResponse(c.response, "AUTH_ERROR")
        /\ c.tool_calls = 0 /\ c.log_calls = 0 /\ EntriesOf(c) = {}

\* C27: a tool is invoked only for a caller who was authenticated and
\* authorized for the capability mapped to the tool's name; log is called,
\* and the row written, only after the tool returned or raised, and the row
\* is written in the step that ends with the response; a call moves through
\* the order forwards only, and once it has responded (after an
\* authentication or authorization failure too) nothing of it changes.
C27_DispatchOrder ==
    /\ [](\A t \in DOMAIN calls : InOrder(calls[t]))
    /\ [][/\ \A t \in DOMAIN calls :
              /\ calls[t].pc = "done" => calls'[t] = calls[t]
              /\ calls'[t].pc # calls[t].pc
                 => <<calls[t].pc, calls'[t].pc>> \in OrderedSteps
          /\ store' # store =>
                \E t \in DOMAIN calls :
                    /\ calls[t].pc = "commit" /\ calls'[t].pc = "done"
                    /\ store' = Append(store, calls[t].row)]_vars

\* C27 witness: an analyst's web_search went through the whole order and
\* its row is in the store
C27_Witness ==
    \E t \in DOMAIN calls :
        /\ calls[t].pc = "done" /\ calls[t].executing
        /\ calls[t].name = "web_search"
        /\ calls[t].auth_context.role = "ANALYST"
        /\ calls[t].tool_calls = 1
        /\ calls[t].success
        /\ Cardinality(EntriesOf(calls[t])) = 1


\* C28 as stated: the time recorded in an invocation's audit row is the time
\* from the entry into the execute block, after authentication and
\* authorization, to the end of the tool call.
C28_TimesToolOnly ==
    \A t \in DOMAIN calls :
        \A i \in EntriesOf(calls[t]) :
            store[i].execution_time_ms = store[i].timestamp - calls[t].tool_started

\* C28 as the code has it: the time recorded runs from the start of
\* call_tool, before authentication and authorization, to the end of the
\* tool call; it is fixed before the audit write, so the wait for the commit
\* is not in it, and it is never less than the time of the tool call alone.
C28_TimesWholeInvocation ==
    \A t \in DOMAIN calls :
        /\ calls[t].executing => calls[t].start_time <= calls[t].tool_started
        /\ \A i \in EntriesOf(calls[t]) :
            /\ store[i].execution_time_ms = store[i].timestamp - calls[t].start_time
            /\ store[i].execution_time_ms >= store[i].timestamp - calls[t].tool_started
            /\ store[i].execution_time_ms = calls[t].execution_time

\* C28 witness: authentication and authorization took one unit of time, the
\* tool none, and the row records one
C28_Witness ==
    \E t \in DOMAIN calls :
        /\ calls[t].pc = "done" /\ calls[t].name = "weather"
        /\ calls[t].tool_started = 1 /\ calls[t].start_time = 0
        /\ \E i \in EntriesOf(calls[t]) :
            store[i].execution_time_ms = 1 /\ store[i].timestamp = 1


\* the text secret occurs in value v: in a string of it, or in a key or a
\* value of a mapping or an element of a sequence at any depth
RECURSIVE Mentions(_, _)
Mentions(v, secret) ==
    CASE v[1] = "str" -> Contains(v[2], secret)
      [] v[1] = "dict" ->
            \E k \in DOMAIN v[2] : Contains(k, secret) \/ Mentions(v[2][k], secret)
      [] v[1] = "list" -> \E i \in DOMAIN v[2] : Mentions(v[2][i], secret)
      [] OTHER -> FALSE

\* mapping m has the key "_api_key", or mentions the secret
CarriesCredential(m, secret) ==
    "_api_key" \in DOMAIN m \/ Mentions(DictV(m), secret)

\* the same of a response: of the payload of a tool, or of the input of the
\* entries view_audit_log returns
ResponseCarriesCredential(c, secret) ==
    IF c.name = "view_audit_log" /\ c.executing
    THEN \E i \in DOMAIN Get(c.response[2], "entries")[2] :
            CarriesCredential(Get(c.response[2], "entries")[2][i].input_data, secret)
    ELSE CarriesCredential(c.response[2], secret)

ResponseFlagged(c) == IsDict(c.response) /\ Truthy(Get(c.response[2], "error"))

\* C30: the row of an executed invocation has success false exactly when the
\* response carries a truthy error flag; a row with success true has no
\* error message, and a row with success false has the message of the
\* response as its error message.
C30_AuditAgreesWithResponse ==
    \A t \in DOMAIN calls :
        \A i \in EntriesOf(calls[t]) :
            /\ ~store[i].success <=> ResponseFlagged(calls[t])
            /\ store[i].success => store[i].error_message = NoneV
            /\ ~store[i].success =>
                /\ "message" \in DOMAIN calls[t].response[2]
                /\ store[i].error_message = calls[t].response[2]["message"]

\* C30 witness: an unknown tool was answered with UNKNOWN_TOOL, and the row
\* of the invocation has success false and the message of that response
C30_Witness ==
    \E t \in DOMAIN calls :
        /\ calls[t].pc = "done" /\ calls[t].name = "no_such_tool"
        /\ ErrorResponse(calls[t].response, "UNKNOWN_TOOL")
        /\ \E i \in EntriesOf(calls[t]) :
            /\ ~store[i].success
            /\ store[i].error_message = StrV("Unknown tool: no_such_tool")

====
